---- MODULE Spec2Model ----
(***************************************************************************)
(* JustAdios: meeting store, duration policy, access-token cache, webhook  *)
(* reconciler and the scheduled jobs, as a state machine.                  *)
(*                                                                         *)
(* Time is counted in ticks; TicksPerMinute ticks make one minute.         *)
(* Option<T> values are sequences: None is <<>> and Some(x) is <<x>>.      *)
(***************************************************************************)
EXTENDS Integers, Sequences, FiniteSets, Bags, TLC

VARIABLES
    now,        \* chrono::Utc::now(), in ticks
    users,      \* the users table: sequence of rows, user_id = index
    meetings,   \* the meetings table: sequence of rows, meeting_id = index
    queue,      \* the Runtime's job queue: a bag of enqueued jobs
    workers,    \* per job worker: the job it runs, its position and locals
    issued,     \* number of token bundles the provider has issued
    response    \* the HTTP response of the step just taken, if it was a request

vars == <<now, users, meetings, queue, workers, issued, response>>

(***************************** bounds **************************************)
TicksPerMinute == 2     \* clock resolution: ticks in one minute
MaxTime == 1            \* the clock stops advancing at this tick
MaxIssued == 3          \* token bundles the provider issues in one run
MaxQueue == 1           \* the periodic triggers wait while this many jobs are queued
MaxListed == 1          \* live meetings in one provider listing

None == <<>>
Some(x) == <<x>>
IsSome(o) == o # <<>>
Unwrap(o) == o[1]

\* job workers: each running process of the app spawns one job_worker, and the
\* processes share the database and the job queue
Workers == {"w1", "w2"}

(************************ the provider's world *****************************)
\* Provider accounts (host identities), meeting ids and instance ids (uuids).
\* An instance id names one occurrence of one meeting id; "u1" and "u2" are
\* two occurrences of the recurring meeting "z1".
Instances == {"u1", "u2", "u3", "u4"}
ZoomIdOf(uuid) == IF uuid = "u4" THEN "z3" ELSE IF uuid = "u3" THEN "z2" ELSE "z1"
HostOf(zoom_id) == IF zoom_id = "z1" THEN "h1" ELSE IF zoom_id = "z2" THEN "h2" ELSE "h3"
HostedBy(h) == {u \in Instances : HostOf(ZoomIdOf(u)) = h}

Topics == {"standup"}
ExpiresIn == {2, 10}         \* expires_in of a token bundle, in ticks

(*************************** db.rs: DBMeeting ******************************)
DEFAULT_MAX_MEETING_LENGTH_MINUTES == 40

Minutes(n) == n * TicksPerMinute

\* Rust integer division, which truncates toward zero
TruncDiv(a, b) == IF a >= 0 THEN a \div b ELSE 0 - ((0 - a) \div b)

\* chrono::Duration::num_minutes
num_minutes(d) == TruncDiv(d, TicksPerMinute)

is_ended(m) == IsSome(m.end_time)

duration(m, t) ==
    LET end_time_for_calc == IF IsSome(m.end_time) THEN Unwrap(m.end_time) ELSE t
    IN  end_time_for_calc - m.start_time

\* the precedence with the user's default ahead of the meeting's override
max_duration_default_first(m, u) ==
    IF IsSome(u.default_meeting_length_minutes)
    THEN Minutes(Unwrap(u.default_meeting_length_minutes))
    ELSE IF IsSome(m.max_meeting_length_minutes)
    THEN Minutes(Unwrap(m.max_meeting_length_minutes))
    ELSE Minutes(DEFAULT_MAX_MEETING_LENGTH_MINUTES)

max_duration(m, u) ==
    IF IsSome(m.max_meeting_length_minutes)
    THEN Minutes(Unwrap(m.max_meeting_length_minutes))
    ELSE IF IsSome(u.default_meeting_length_minutes)
    THEN Minutes(Unwrap(u.default_meeting_length_minutes))
    ELSE Minutes(DEFAULT_MAX_MEETING_LENGTH_MINUTES)

\* whole minutes rounded down
minutes_remaining_floor(m, u, t) == (max_duration(m, u) - duration(m, t)) \div TicksPerMinute

minutes_remaining(m, u, t) == num_minutes(max_duration(m, u) - duration(m, t))

(**************************** db.rs: DBUser ********************************)
TokenBufferSeconds == 60
BufferTicks == (TokenBufferSeconds * TicksPerMinute) \div 60

\* a token that expires exactly at the buffer counted as expired
is_access_token_expired_strict_buffer(u, t) == u.expires_at <= t + BufferTicks

is_access_token_expired(u, t) ==
    LET now_with_buffer == t + BufferTicks
    IN  u.expires_at < now_with_buffer

(********************* zoom.rs: ListedMeeting, live_duration ***************)
\* the provider's meeting types: 1 instant, 2 scheduled, 4 Personal Meeting
\* Room
\* created_at as parsed with "%Y-%m-%dT%H:%M:%SZ", in ticks; None when the
\* text does not parse
ListedMeetings == [type : {1, 2, 4}, created_at : {None, Some(0 - Minutes(1))}]

Ok(value) == [ok |-> TRUE, value |-> value, err |-> ""]
Err(err) == [ok |-> FALSE, value |-> 0, err |-> err]

\* chrono::Duration::num_seconds
num_seconds(d) == TruncDiv(d * 60, TicksPerMinute)

\* a computation that takes created_at for the start of any listed meeting
live_duration_any_type(m, t) ==
    IF m.created_at = None THEN Err("Could not parse created at timestamp")
    ELSE Ok(num_seconds(t - Unwrap(m.created_at)))

live_duration(m, t) ==
    IF m.type = 4 THEN Err("Could not determine the live duration of a Personal Meeting Room Meeting")
    ELSE IF m.type # 1 THEN Err("Meeting type is not supported")
    ELSE IF m.created_at = None THEN Err("Could not parse created at timestamp")
    ELSE Ok(num_seconds(t - Unwrap(m.created_at)))

\* Result::unwrap_or
unwrap_or(result, default) == IF result.ok THEN result.value ELSE default

(************************ the store's statements ***************************)
MeetingIds == 1..Len(meetings)
UserIds == 1..Len(users)

UsersByZoomId(zoom_id) == {i \in UserIds : users[i].zoom_id = zoom_id}

\* The unique index on meetings(zoom_id), which the discovery insert names as
\* its conflict target.
ZoomIdConflict(zoom_id) == \E i \in MeetingIds : meetings[i].zoom_id = zoom_id

NewMeeting(user_id, zoom_id, zoom_uuid, start_time, topic) ==
    [meeting_id |-> Len(meetings) + 1,
     user_id |-> user_id,
     zoom_id |-> zoom_id,
     zoom_uuid |-> zoom_uuid,
     start_time |-> start_time,
     end_time |-> None,
     max_meeting_length_minutes |-> None,
     topic |-> topic]

(************************* inbound HTTP requests ***************************)
\* response also notes how the request's signature header related to the
\* HMAC of the request (signed), for the webhook endpoint.
NoResponse == [status |-> 0, reason |-> "", steps |-> <<>>, panicked |-> FALSE, signed |-> ""]
Reply(status, reason, steps) ==
    [status |-> status, reason |-> reason, steps |-> steps, panicked |-> FALSE, signed |-> ""]
\* A panic in the handler: the connection is dropped without a response.
Panicked(steps) ==
    [status |-> 0, reason |-> "panic", steps |-> steps, panicked |-> TRUE, signed |-> ""]

SecretToken == "ZOOM_SECRET_TOKEN"

\* Header values. A header value that is not visible ASCII makes to_str() fail.
AsciiValue(text) == [ascii |-> TRUE, text |-> text]

\* SimpleHmac<Sha256> and hex::encode, as injective constructors.
Hmac(key, message) == <<"hmac-sha256", key, message>>
HexEncode(bytes) == <<"hex", bytes>>
SignatureFor(key, timestamp_text, body) ==
    <<"v0=", HexEncode(Hmac(key, <<"v0:", timestamp_text, ":", body>>))>>

StartTimes == {0 - Minutes(DEFAULT_MAX_MEETING_LENGTH_MINUTES), 0 - Minutes(38)}

\* JSON payloads, by the shape serde sees.  A meeting payload is what the
\* provider sends about one of its instances.
MeetingDetails(u, s, e, t) ==
    [shape |-> "meeting", host_id |-> HostOf(ZoomIdOf(u)), id |-> ZoomIdOf(u), uuid |-> u,
     start_time |-> s, end_time |-> e, topic |-> t]
StartedPayloads == {MeetingDetails(u, s, None, t) : u \in Instances, s \in StartTimes, t \in Topics}
EndedPayloads == {MeetingDetails(u, 0, e, t) : u \in Instances, e \in {None, Some(1), Some(2)}, t \in Topics}


Envelope(e, p) == [json |-> TRUE, event |-> e, payload |-> p]
NotJson == [json |-> FALSE]

\* Request bodies: text that is no {event, payload} envelope, or an envelope
\* whose payload fits the event or does not.
Bodies ==
    {NotJson}
    \cup {Envelope("meeting.started", p) : p \in StartedPayloads}
    \cup {Envelope("meeting.ended", p) : p \in EndedPayloads}
    \cup {Envelope("meeting.participant_joined", [shape |-> "participant_joined"]),
          Envelope("meeting.participant_left", [shape |-> "participant_left"])}
    \cup {Envelope(e, [shape |-> "other"]) :
              e \in {"meeting.started", "meeting.ended", "meeting.participant_joined",
                     "meeting.participant_left", "meeting.deleted"}}
    \cup {Envelope("meeting.deleted", p) : p \in {q \in EndedPayloads : q.uuid = "u1" /\ q.end_time = None}}

\* The signature header: absent, or a signature made with some secret over
\* this body or over another one.
SignatureHeaders(body) ==
    {None} \cup {Some(SignatureFor(k, "1700000000", bb)) :
                    k \in {SecretToken, "other secret"}, bb \in {body, NotJson}}

\* How a request's x-zm-signature relates to the HMAC of "v0:{timestamp}:{body}"
\* under the configured secret.
Signed(req) ==
    IF req.timestamp = None \/ req.signature = None THEN "header missing"
    ELSE IF ~Unwrap(req.timestamp).ascii THEN "timestamp unreadable"
    ELSE IF Unwrap(req.signature)[2][2][2] = SecretToken
            /\ Unwrap(req.signature)[2][2][3] = <<"v0:", Unwrap(req.timestamp).text, ":", req.body>>
    THEN "match"
    ELSE "mismatch"


(********************* routes/webhooks.rs: verification ********************)
\* a verification that compares nothing
verify_zoom_signature_accept_all(secret_token, req) ==
    IF req.timestamp = None \/ req.signature = None THEN "panic"
    ELSE IF ~Unwrap(req.timestamp).ascii THEN "panic"
    ELSE "ok"

verify_zoom_signature(secret_token, req) ==
    IF req.timestamp = None THEN "panic"                      \* headers.get(..).unwrap()
    ELSE IF ~Unwrap(req.timestamp).ascii THEN "panic"         \* to_str().unwrap()
    ELSE LET signature == SignatureFor(secret_token, Unwrap(req.timestamp).text, req.body)
         IN  IF req.signature = None THEN "panic"             \* headers.get(..).unwrap()
             ELSE IF Unwrap(req.signature) # signature THEN "BAD_REQUEST"
             ELSE "ok"

\* ZoomWebhookEvent::try_from: the event name selects the payload type;
\* serde_json::from_value fails when the payload has another shape, and a name
\* outside the four is eyre!("Unknown event type").
TryFromErrors == {"Unknown event type", "serde_json::Error"}

\* a conversion that takes an unknown event name for an event to ignore
try_from_ignoring_unknown(body) ==
    IF body.event = "meeting.started" /\ body.payload.shape = "meeting" THEN "MeetingStarted"
    ELSE IF body.event = "meeting.ended" /\ body.payload.shape = "meeting" THEN "MeetingEnded"
    ELSE IF body.event \in {"meeting.started", "meeting.ended"} THEN "serde_json::Error"
    ELSE "ParticipantJoined"

try_from(body) ==
    IF body.event = "meeting.started"
    THEN IF body.payload.shape = "meeting" THEN "MeetingStarted" ELSE "serde_json::Error"
    ELSE IF body.event = "meeting.ended"
    THEN IF body.payload.shape = "meeting" THEN "MeetingEnded" ELSE "serde_json::Error"
    ELSE IF body.event = "meeting.participant_joined"
    THEN IF body.payload.shape = "participant_joined" THEN "ParticipantJoined"
         ELSE "serde_json::Error"
    ELSE IF body.event = "meeting.participant_left"
    THEN IF body.payload.shape = "participant_left" THEN "ParticipantLeft"
         ELSE "serde_json::Error"
    ELSE "Unknown event type"

(******************* routes/webhooks.rs: event processing ******************)
\* Each process operator yields the handler's response and the meetings table
\* after it.  failing is the number of the store statement that fails with a
\* store error (0: none does).
Outcome(resp, table) == [response |-> resp, meetings |-> table]

\* a handler that stores the meeting of a host it does not know, ownerless
MeetingStarted_process_unknown_host_kept(object, failing, steps) ==
    LET found == UsersByZoomId(object.host_id)
        user_id == IF found = {} THEN 0 ELSE CHOOSE i \in found : TRUE
        st == steps \o <<"select user", "insert meeting">>
    IN  IF failing # 0 \/ ZoomIdConflict(object.id)
        THEN Outcome(Reply(400, "DB Error", st), meetings)
        ELSE Outcome(Reply(200, "", st),
                     Append(meetings, NewMeeting(user_id, object.id, object.uuid,
                                                object.start_time, Some(object.topic))))

\* a handler whose insert takes over the row of a meeting that has one
MeetingStarted_process_upserting(object, failing, steps) ==
    LET found == UsersByZoomId(object.host_id)
        st == steps \o <<"select user">>
    IN  IF failing = 1 \/ found = {}
        THEN Outcome(Reply(400, "User not found", st), meetings)
        ELSE LET user == users[CHOOSE i \in found : TRUE]
                 st2 == st \o <<"insert meeting">>
             IN  IF failing = 2
                 THEN Outcome(Reply(400, "DB Error", st2), meetings)
                 ELSE IF ZoomIdConflict(object.id)
                 THEN Outcome(Reply(200, "", st2),
                              [i \in DOMAIN meetings |->
                                  IF meetings[i].zoom_id = object.id
                                  THEN [meetings[i] EXCEPT !.zoom_uuid = object.uuid,
                                                           !.start_time = object.start_time,
                                                           !.topic = Some(object.topic)]
                                  ELSE meetings[i]])
                 ELSE Outcome(Reply(200, "", st2),
                              Append(meetings, NewMeeting(user.user_id, object.id, object.uuid,
                                                         object.start_time, Some(object.topic))))

MeetingStarted_process(object, failing, steps) ==
    LET found == UsersByZoomId(object.host_id)
        st == steps \o <<"select user">>
    IN  IF failing = 1 \/ found = {}
        THEN Outcome(Reply(400, "User not found", st), meetings)
        ELSE LET user == users[CHOOSE i \in found : TRUE]
                 st2 == st \o <<"insert meeting">>
             IN  IF failing = 2 \/ ZoomIdConflict(object.id)
                 THEN Outcome(Reply(400, "DB Error", st2), meetings)
                 ELSE Outcome(Reply(200, "", st2),
                              Append(meetings, NewMeeting(user.user_id, object.id, object.uuid,
                                                         object.start_time, Some(object.topic))))

\* an update whose WHERE clause matches every row once the instance has one
SetEndTime_every_row(table, uuid, end_time) ==
    [i \in DOMAIN table |->
        IF \E j \in DOMAIN table : table[j].zoom_uuid = uuid
        THEN [table[i] EXCEPT !.end_time = end_time] ELSE table[i]]

SetEndTime(table, uuid, end_time) ==
    [i \in DOMAIN table |->
        IF table[i].zoom_uuid = uuid THEN [table[i] EXCEPT !.end_time = end_time] ELSE table[i]]

\* a handler that answers success when the update matches no row
MeetingEnded_process_silent(object, failing, steps) ==
    LET st == steps \o <<"update meeting">>
    IN  IF failing = 1
        THEN Outcome(Reply(400, "DB Error", st), meetings)
        ELSE Outcome(Reply(200, "", st), SetEndTime(meetings, object.uuid, object.end_time))

MeetingEnded_process(object, failing, steps) ==
    LET st == steps \o <<"update meeting">>
        matched == {i \in MeetingIds : meetings[i].zoom_uuid = object.uuid}
    IN  IF failing = 1 \/ matched = {}
        THEN Outcome(Reply(400, "DB Error", st), meetings)
        ELSE Outcome(Reply(200, "", st), SetEndTime(meetings, object.uuid, object.end_time))

ParticipantJoined_process(steps) == Outcome(Reply(200, "", steps), meetings)

\* a handler that takes the departure of a participant for the end of meetings
ParticipantLeft_process_closing(steps) ==
    Outcome(Reply(200, "", steps \o <<"update meeting">>),
            [i \in MeetingIds |-> [meetings[i] EXCEPT !.end_time = Some(now)]])

ParticipantLeft_process(steps) == Outcome(Reply(200, "", steps), meetings)

process(event, object, failing, steps) ==
    IF event = "MeetingStarted" THEN MeetingStarted_process(object, failing, steps)
    ELSE IF event = "MeetingEnded" THEN MeetingEnded_process(object, failing, steps)
    ELSE IF event = "ParticipantJoined" THEN ParticipantJoined_process(steps)
    ELSE ParticipantLeft_process(steps)

\* a handler that decodes the body before it verifies the signature
zoom_webhook_outcome_decode_first(req, failing) ==
    IF ~req.body.json THEN Outcome(Panicked(<<"decode">>), meetings)
    ELSE LET verified == verify_zoom_signature(SecretToken, req)
             event == try_from(req.body)
             st == <<"decode", "try_from", "verify">>
         IN  IF verified = "panic" THEN Outcome(Panicked(st), meetings)
             ELSE IF verified = "BAD_REQUEST"
             THEN Outcome(Reply(400, "Invalid zoom webhook signature", st), meetings)
             ELSE IF event \in TryFromErrors
             THEN Outcome(Reply(400, "Invalid zoom webhook body: serde_json::Error", st), meetings)
             ELSE process(event, req.body.payload, failing, st \o <<"process">>)

\* The handler of POST /webhooks/zoom, as a function of the request.
zoom_webhook_outcome(req, failing) ==
    LET verified == verify_zoom_signature(SecretToken, req)
    IN  IF verified = "panic" THEN Outcome(Panicked(<<"verify">>), meetings)
        ELSE IF verified = "BAD_REQUEST"
        THEN Outcome(Reply(400, "Invalid zoom webhook signature", <<"verify">>), meetings)
        ELSE IF ~req.body.json
        THEN Outcome(Panicked(<<"verify", "decode">>), meetings)   \* from_str(..).unwrap()
        ELSE LET event == try_from(req.body)
                 st == <<"verify", "decode", "try_from">>
             IN  IF event = "Unknown event type"
                 THEN Outcome(Reply(400, "Invalid zoom webhook body: Unknown event type", st),
                              meetings)
                 ELSE IF event \in TryFromErrors
                 THEN Outcome(Reply(400, "Invalid zoom webhook body: serde_json::Error", st),
                              meetings)
                 ELSE process(event, req.body.payload, failing, st \o <<"process">>)

Stores == 0..2

zoom_webhook(req, failing) ==
    LET out == zoom_webhook_outcome(req, failing)
    IN  /\ meetings' = out.meetings
        /\ response' = [out.response EXCEPT !.signed = Signed(req)]
        /\ UNCHANGED <<now, users, queue, workers, issued>>

(************************** routes.rs: the pages ***************************)
\* The provider's token endpoint answers a grant with a new bundle.  Access
\* tokens are numbered by issue; the refresh token is the presented one or a
\* rotated one.
TokenResponses(presented) ==
    {[access_token |-> issued + 1, refresh_token |-> r, expires_in |-> e] :
        r \in {issued + 1} \cup presented, e \in ExpiresIn}

\* GET /oauth/zoom: the authorization-code grant, then the upsert of the user.
zoom_oauth(host, token_response) ==
    LET expires_at == now + token_response.expires_in
        found == UsersByZoomId(host)
        row == [user_id |-> Len(users) + 1,
                zoom_id |-> host,
                access_token |-> token_response.access_token,
                refresh_token |-> token_response.refresh_token,
                expires_at |-> expires_at,
                default_meeting_length_minutes |-> None]
    IN  /\ issued < MaxIssued
        /\ issued' = issued + 1
        /\ users' = IF found = {} THEN Append(users, row)
                    ELSE [i \in UserIds |->
                            IF i \in found
                            THEN [users[i] EXCEPT !.access_token = token_response.access_token,
                                                  !.refresh_token = token_response.refresh_token,
                                                  !.expires_at = expires_at]
                            ELSE users[i]]
        /\ response' = Reply(307, "", <<"upsert user">>)
        /\ UNCHANGED <<now, meetings, queue, workers>>

\* an update keyed by the meeting id alone
edit_meeting_of_any_owner(session_user, meeting_id, max_meeting_length_minutes, failing) ==
    IF meeting_id = None
    THEN /\ response' = Reply(500, "Failed to parse meeting id", <<>>)
         /\ UNCHANGED <<now, users, meetings, queue, workers, issued>>
    ELSE IF failing = 1
    THEN /\ response' = Reply(500, "Failed to update meeting", <<"update meeting">>)
         /\ UNCHANGED <<now, users, meetings, queue, workers, issued>>
    ELSE /\ meetings' = [i \in MeetingIds |->
                            IF i = Unwrap(meeting_id)
                            THEN [meetings[i] EXCEPT
                                    !.max_meeting_length_minutes = max_meeting_length_minutes]
                            ELSE meetings[i]]
         /\ response' = Reply(303, "", <<"update meeting">>)
         /\ UNCHANGED <<now, users, queue, workers, issued>>

\* POST /meetings/:meeting_id by the logged-in user session_user.
\* meeting_id is None when the path segment is no uuid.
edit_meeting(session_user, meeting_id, max_meeting_length_minutes, failing) ==
    IF meeting_id = None
    THEN /\ response' = Reply(500, "Failed to parse meeting id", <<>>)
         /\ UNCHANGED <<now, users, meetings, queue, workers, issued>>
    ELSE IF failing = 1
    THEN /\ response' = Reply(500, "Failed to update meeting", <<"update meeting">>)
         /\ UNCHANGED <<now, users, meetings, queue, workers, issued>>
    ELSE /\ meetings' = [i \in MeetingIds |->
                            IF i = Unwrap(meeting_id) /\ meetings[i].user_id = session_user
                            THEN [meetings[i] EXCEPT
                                    !.max_meeting_length_minutes = max_meeting_length_minutes]
                            ELSE meetings[i]]
         /\ response' = Reply(303, "", <<"update meeting">>)
         /\ UNCHANGED <<now, users, queue, workers, issued>>

\* POST /settings/edit by the logged-in user session_user.
update_settings(session_user, default_meeting_length_minutes, failing) ==
    IF failing = 1
    THEN /\ response' = Reply(500, "Failed to update user", <<"update user">>)
         /\ UNCHANGED <<now, users, meetings, queue, workers, issued>>
    ELSE /\ users' = [users EXCEPT ![session_user].default_meeting_length_minutes =
                                        default_meeting_length_minutes]
         /\ response' = Reply(303, "", <<"update user">>)
         /\ UNCHANGED <<now, meetings, queue, workers, issued>>

LengthInputs == {None} \cup {Some(n) : n \in {1, 60}}


(************************** the Runtime: jobs ******************************)
Job(name, arg) == [name |-> name, arg |-> arg]

\* reqwest: StatusCode::is_success
is_success(status) == status \in 200..299

\* the provider's answers to the terminate call; NoAnswer stands for a run
\* that has had none
NoAnswer == 0

IdleWorker ==
    [pc |-> "idle", job |-> Job("", 0), meeting |-> None, owner |-> None, list |-> <<>>,
     token_response |-> None, access_token |-> None, refresh_calls |-> 0,
     adios_calls |-> 0, adios_status |-> NoAnswer, adios_token |-> None, inserts |-> <<>>,
     enqueued |-> <<>>, result |-> "", failed_at |-> ""]

FirstStep(name) ==
    IF name = "EndMeeting" THEN "EndMeeting: select meeting"
    ELSE IF name = "EndActiveMeetings" THEN "EndActiveMeetings: select meetings"
    ELSE IF name = "CheckLiveUserMeetings" THEN "CheckLiveUserMeetings: select user"
    ELSE "CheckLiveMeetings: select users"

Enqueue(q, job) == q (+) SetToBag({job})

Set(w, rec) ==
    /\ workers' = [workers EXCEPT ![w] = rec]
    /\ response' = NoResponse

\* `?` on a failed step: the run ends with Err
Fail(w, step) == Set(w, [workers[w] EXCEPT !.pc = "done", !.result = "Err", !.failed_at = step])
Succeed(w) == Set(w, [workers[w] EXCEPT !.pc = "done", !.result = "Ok"])

At(w, step) == workers[w].pc = step

\* cron.rs: a periodic trigger enqueues its sweep job
cron_registry(name) ==
    /\ name \in {"CheckLiveMeetings", "EndActiveMeetings"}
    /\ BagCardinality(queue) < MaxQueue
    /\ queue' = Enqueue(queue, Job(name, 0))
    /\ response' = NoResponse
    /\ UNCHANGED <<now, users, meetings, workers, issued>>

\* an idle worker takes a job off the queue
Dequeue(w, job) ==
    /\ At(w, "idle")
    /\ BagIn(job, queue)
    /\ queue' = queue (-) SetToBag({job})
    /\ Set(w, [IdleWorker EXCEPT !.pc = FirstStep(job.name), !.job = job])
    /\ UNCHANGED <<now, users, meetings, issued>>

\* the worker reports the run's result to the Runtime and becomes idle
Finish(w) ==
    /\ At(w, "done")
    /\ Set(w, IdleWorker)
    /\ UNCHANGED <<now, users, meetings, queue, issued>>

(********************** jobs/end_meeting.rs: EndMeeting ********************)
\* a select that takes the row as it was made, without its override
EndMeeting_select_meeting_as_made(w, ok) ==
    /\ At(w, "EndMeeting: select meeting")
    /\ IF ok /\ workers[w].job.arg \in MeetingIds
       THEN Set(w, [workers[w] EXCEPT
                       !.meeting = Some([meetings[workers[w].job.arg] EXCEPT
                                            !.max_meeting_length_minutes = None]),
                       !.pc = "EndMeeting: select owner"])
       ELSE Fail(w, "select meeting")
    /\ UNCHANGED <<now, users, meetings, queue, issued>>

EndMeeting_select_meeting(w, ok) ==
    /\ At(w, "EndMeeting: select meeting")
    /\ IF ok /\ workers[w].job.arg \in MeetingIds
       THEN Set(w, [workers[w] EXCEPT !.meeting = Some(meetings[workers[w].job.arg]),
                                      !.pc = "EndMeeting: select owner"])
       ELSE Fail(w, "select meeting")
    /\ UNCHANGED <<now, users, meetings, queue, issued>>

EndMeeting_select_owner(w, ok) ==
    /\ At(w, "EndMeeting: select owner")
    /\ LET user_id == Unwrap(workers[w].meeting).user_id
       IN  IF ok /\ user_id \in UserIds
           THEN Set(w, [workers[w] EXCEPT !.owner = Some(users[user_id]),
                                          !.pc = "EndMeeting: check"])
           ELSE Fail(w, "select owner")
    /\ UNCHANGED <<now, users, meetings, queue, issued>>

\* a check without the is_ended guard
EndMeeting_check_unguarded(w) ==
    /\ At(w, "EndMeeting: check")
    /\ LET meeting == Unwrap(workers[w].meeting)
           owner == Unwrap(workers[w].owner)
       IN  IF duration(meeting, now) > max_duration(meeting, owner)
           THEN Set(w, [workers[w] EXCEPT !.pc = "access_token: check"])
           ELSE Succeed(w)
    /\ UNCHANGED <<now, users, meetings, queue, issued>>

\* a check that also ends a meeting whose duration equals its limit
EndMeeting_check_at_limit(w) ==
    /\ At(w, "EndMeeting: check")
    /\ LET meeting == Unwrap(workers[w].meeting)
           owner == Unwrap(workers[w].owner)
       IN  IF is_ended(meeting) THEN Succeed(w)
           ELSE IF duration(meeting, now) >= max_duration(meeting, owner)
           THEN Set(w, [workers[w] EXCEPT !.pc = "access_token: check"])
           ELSE Succeed(w)
    /\ UNCHANGED <<now, users, meetings, queue, issued>>

EndMeeting_check(w) ==
    /\ At(w, "EndMeeting: check")
    /\ LET meeting == Unwrap(workers[w].meeting)
           owner == Unwrap(workers[w].owner)
       IN  IF is_ended(meeting) THEN Succeed(w)
           ELSE IF duration(meeting, now) > max_duration(meeting, owner)
           THEN Set(w, [workers[w] EXCEPT !.pc = "access_token: check"])
           ELSE Succeed(w)
    /\ UNCHANGED <<now, users, meetings, queue, issued>>

\* db.rs: DBUser::access_token, called on the owner row the job read
access_token_check(w) ==
    /\ At(w, "access_token: check")
    /\ LET owner == Unwrap(workers[w].owner)
       IN  IF ~is_access_token_expired(owner, now)
           THEN Set(w, [workers[w] EXCEPT !.access_token = Some(owner.access_token),
                                          !.pc = "EndMeeting: adios"])
           ELSE Set(w, [workers[w] EXCEPT !.pc = "access_token: refresh"])
    /\ UNCHANGED <<now, users, meetings, queue, issued>>

\* a refresh that tries the token endpoint again after a failure
refresh_access_token_retrying(w, answer) ==
    /\ At(w, "access_token: refresh")
    /\ IF IsSome(answer)
       THEN /\ issued < MaxIssued
            /\ issued' = issued + 1
            /\ Set(w, [workers[w] EXCEPT !.token_response = answer,
                                         !.refresh_calls = @ + 1,
                                         !.pc = "access_token: update user"])
       ELSE /\ issued' = issued
            /\ workers[w].refresh_calls < 2
            /\ Set(w, [workers[w] EXCEPT !.refresh_calls = @ + 1])
    /\ UNCHANGED <<now, users, meetings, queue>>

\* zoom.rs: refresh_access_token, one POST to the token endpoint
refresh_access_token(w, answer) ==
    /\ At(w, "access_token: refresh")
    /\ IF IsSome(answer)
       THEN /\ issued < MaxIssued
            /\ issued' = issued + 1
            /\ Set(w, [workers[w] EXCEPT !.token_response = answer,
                                         !.refresh_calls = @ + 1,
                                         !.pc = "access_token: update user"])
       ELSE /\ issued' = issued
            /\ Set(w, [workers[w] EXCEPT !.pc = "done", !.result = "Err",
                                         !.failed_at = "refresh", !.refresh_calls = @ + 1])
    /\ UNCHANGED <<now, users, meetings, queue>>

\* an update that never shortens the stored expiry
StoreToken_keeping_later_expiry(table, user_id, token_response, expires_at) ==
    [i \in DOMAIN table |->
        IF i = user_id
        THEN [table[i] EXCEPT !.access_token = token_response.access_token,
                              !.expires_at = IF @ > expires_at THEN @ ELSE expires_at]
        ELSE table[i]]

StoreToken(table, user_id, token_response, expires_at) ==
    [i \in DOMAIN table |->
        IF i = user_id
        THEN [table[i] EXCEPT !.access_token = token_response.access_token,
                              !.expires_at = expires_at]
        ELSE table[i]]

\* a lookup that goes on with the refreshed token when its store write fails
access_token_update_user_swallowing(w, ok) ==
    /\ At(w, "access_token: update user")
    /\ LET token_response == Unwrap(workers[w].token_response)
           expires_at == now + token_response.expires_in
       IN  /\ users' = IF ok
                        THEN StoreToken(users, Unwrap(workers[w].owner).user_id,
                                        token_response, expires_at)
                        ELSE users
           /\ Set(w, [workers[w] EXCEPT !.access_token = Some(token_response.access_token),
                                        !.failed_at = IF ok THEN @ ELSE "update user",
                                        !.pc = "EndMeeting: adios"])
    /\ UNCHANGED <<now, meetings, queue, issued>>

access_token_update_user(w, ok) ==
    /\ At(w, "access_token: update user")
    /\ LET token_response == Unwrap(workers[w].token_response)
           expires_at == now + token_response.expires_in
       IN  IF ok
           THEN /\ users' = StoreToken(users, Unwrap(workers[w].owner).user_id,
                                       token_response, expires_at)
                /\ Set(w, [workers[w] EXCEPT !.access_token = Some(token_response.access_token),
                                             !.pc = "EndMeeting: adios"])
           ELSE /\ users' = users
                /\ Fail(w, "update user")
    /\ UNCHANGED <<now, meetings, queue, issued>>

\* a terminate call that also closes the row of the meeting it ended
adios_closing_row(w, status) ==
    /\ At(w, "EndMeeting: adios")
    /\ IF is_success(status)
       THEN /\ meetings' = [i \in MeetingIds |->
                               IF i = Unwrap(workers[w].meeting).meeting_id
                               THEN [meetings[i] EXCEPT !.end_time = Some(now)]
                               ELSE meetings[i]]
            /\ Set(w, [workers[w] EXCEPT !.adios_calls = @ + 1, !.adios_status = status,
                                      !.adios_token = workers[w].access_token,
                                         !.pc = "done", !.result = "Ok"])
       ELSE /\ meetings' = meetings
            /\ Set(w, [workers[w] EXCEPT !.adios_calls = @ + 1, !.adios_status = status,
                                      !.adios_token = workers[w].access_token,
                                         !.pc = "done", !.result = "Err", !.failed_at = "adios"])
    /\ UNCHANGED <<now, users, queue, issued>>

\* a terminate call that is made again and again until the provider answers
\* with success
adios_retrying(w, status) ==
    /\ At(w, "EndMeeting: adios")
    /\ IF is_success(status)
       THEN Set(w, [workers[w] EXCEPT !.adios_calls = 1, !.adios_status = status,
                                      !.adios_token = workers[w].access_token,
                                      !.pc = "done", !.result = "Ok"])
       ELSE Set(w, [workers[w] EXCEPT !.adios_calls = 1, !.adios_status = status,
                                      !.adios_token = workers[w].access_token])
    /\ UNCHANGED <<now, users, meetings, queue, issued>>

\* a terminate call that presents the token of the user row the run read
adios_with_stored_token(w, status) ==
    /\ At(w, "EndMeeting: adios")
    /\ IF is_success(status)
       THEN Set(w, [workers[w] EXCEPT !.adios_calls = @ + 1, !.adios_status = status,
                                      !.adios_token = Some(Unwrap(workers[w].owner).access_token),
                                      !.pc = "done", !.result = "Ok"])
       ELSE Set(w, [workers[w] EXCEPT !.adios_calls = @ + 1, !.adios_status = status,
                                      !.adios_token = Some(Unwrap(workers[w].owner).access_token),
                                      !.pc = "done", !.result = "Err", !.failed_at = "adios"])
    /\ UNCHANGED <<now, users, meetings, queue, issued>>

\* zoom.rs: adios, one PUT /meetings/{id}/status {"action": "end"}.  status is
\* the provider's answer: 204 when the meeting was ended, 404 (code 3001) when
\* the provider knows no such meeting in progress; a request that fails in
\* transport ends the run as a non-success status does.  adios_token notes the bearer token of the request.
adios(w, status) ==
    /\ At(w, "EndMeeting: adios")
    /\ IF is_success(status)
       THEN Set(w, [workers[w] EXCEPT !.adios_calls = @ + 1, !.adios_status = status,
                                      !.adios_token = workers[w].access_token,
                                      !.pc = "done", !.result = "Ok"])
       ELSE Set(w, [workers[w] EXCEPT !.adios_calls = @ + 1, !.adios_status = status,
                                      !.adios_token = workers[w].access_token,
                                      !.pc = "done", !.result = "Err", !.failed_at = "adios"])
    /\ UNCHANGED <<now, users, meetings, queue, issued>>

(************************ routes.rs: the debug page ************************)
\* what the debug page shows of one listed meeting
Rendered(m, t) ==
    [meeting |-> m, live_duration |-> live_duration(m, t),
     shown |-> unwrap_or(live_duration(m, t), 0 - 1)]

\* GET /debug by the logged-in user session_user.  failing numbers the store
\* statement that fails (1: the select, 2: the update of access_token); answer
\* is the token endpoint's answer when the stored token has expired, listing
\* the answer of GET /users/me/meetings, channels_ok that of the channels call.
live_api_debug(session_user, failing, answer, listing, channels_ok) ==
    IF failing = 1 \/ session_user \notin UserIds
    THEN /\ response' = Reply(500, "Failed to fetch user", <<>>)
         /\ UNCHANGED <<now, users, meetings, queue, workers, issued>>
    ELSE LET user == users[session_user]
             expired == is_access_token_expired(user, now)
             refreshed == expired /\ IsSome(answer)
         IN  /\ refreshed => issued < MaxIssued
             /\ issued' = IF refreshed THEN issued + 1 ELSE issued
             /\ IF expired /\ (answer = None \/ failing = 2)
                THEN /\ response' = Reply(500, "Failed to get access token", <<>>)
                     /\ users' = users
                ELSE /\ users' = IF expired
                                 THEN StoreToken(users, user.user_id, Unwrap(answer),
                                                 now + Unwrap(answer).expires_in)
                                 ELSE users
                     /\ response' =
                           IF listing = None THEN Reply(500, "Failed to get meetings", <<>>)
                           ELSE IF ~channels_ok THEN Reply(500, "Failed to get channels", <<>>)
                           ELSE Reply(200, "Meetings",
                                      [k \in DOMAIN Unwrap(listing) |->
                                          Rendered(Unwrap(listing)[k], now)])
             /\ UNCHANGED <<now, meetings, queue, workers>>

(******************* jobs/end_meeting.rs: EndActiveMeetings ****************)
RECURSIVE Ascending(_)
Ascending(S) ==
    IF S = {} THEN <<>>
    ELSE LET x == CHOOSE y \in S : \A z \in S : y <= z
         IN  <<x>> \o Ascending(S \ {x})

\* an enumeration of every meeting, open or closed
EndActiveMeetings_select_all(w, ok) ==
    /\ At(w, "EndActiveMeetings: select meetings")
    /\ IF ok
       THEN Set(w, [workers[w] EXCEPT !.list = Ascending(MeetingIds),
                                      !.pc = "EndActiveMeetings: enqueue"])
       ELSE Fail(w, "select meetings")
    /\ UNCHANGED <<now, users, meetings, queue, issued>>

\* an enumeration of the closed meetings in place of the open ones
EndActiveMeetings_select_closed(w, ok) ==
    /\ At(w, "EndActiveMeetings: select meetings")
    /\ IF ok
       THEN Set(w, [workers[w] EXCEPT
                      !.list = Ascending({i \in MeetingIds : meetings[i].end_time # None}),
                      !.pc = "EndActiveMeetings: enqueue"])
       ELSE Fail(w, "select meetings")
    /\ UNCHANGED <<now, users, meetings, queue, issued>>

EndActiveMeetings_select(w, ok) ==
    /\ At(w, "EndActiveMeetings: select meetings")
    /\ IF ok
       THEN Set(w, [workers[w] EXCEPT
                      !.list = Ascending({i \in MeetingIds : meetings[i].end_time = None}),
                      !.pc = "EndActiveMeetings: enqueue"])
       ELSE Fail(w, "select meetings")
    /\ UNCHANGED <<now, users, meetings, queue, issued>>

EndActiveMeetings_enqueue(w, ok) ==
    /\ At(w, "EndActiveMeetings: enqueue")
    /\ IF workers[w].list = <<>>
       THEN /\ ok
            /\ queue' = queue
            /\ Succeed(w)
       ELSE IF ok
       THEN /\ queue' = Enqueue(queue, Job("EndMeeting", Head(workers[w].list)))
            \* enqueued notes the entities a child job was enqueued for
            /\ Set(w, [workers[w] EXCEPT !.list = Tail(@),
                                         !.enqueued = Append(@, Head(workers[w].list))])
       ELSE /\ queue' = queue
            /\ Fail(w, "enqueue")
    /\ UNCHANGED <<now, users, meetings, issued>>


(************ jobs/check_live_meetings.rs: CheckLiveUserMeetings ***********)
CheckLiveUserMeetings_select_user(w, ok) ==
    /\ At(w, "CheckLiveUserMeetings: select user")
    /\ IF ok /\ workers[w].job.arg \in UserIds
       THEN Set(w, [workers[w] EXCEPT !.owner = Some(users[workers[w].job.arg]),
                                      !.pc = "CheckLiveUserMeetings: get_meetings"])
       ELSE Fail(w, "select user")
    /\ UNCHANGED <<now, users, meetings, queue, issued>>

\* what GET /users/me/meetings?type=live can list for a host: some of the
\* instances the host runs, in some order
Listings(host) == UNION {[1..k -> HostedBy(host)] : k \in 0..MaxListed}

\* a listing that asks DBUser::access_token for the token, which refreshes a
\* token inside the buffer and stores the new one
get_meetings_with_fresh_token(w, answer) ==
    /\ At(w, "CheckLiveUserMeetings: get_meetings")
    /\ LET owner == Unwrap(workers[w].owner)
           expired == is_access_token_expired(owner, now)
           token_response == [access_token |-> issued + 1,
                              refresh_token |-> owner.refresh_token, expires_in |-> 10]
       IN  IF IsSome(answer)
           THEN /\ expired => issued < MaxIssued
                /\ issued' = IF expired THEN issued + 1 ELSE issued
                /\ users' = IF expired
                             THEN StoreToken(users, owner.user_id, token_response, now + 10)
                             ELSE users
                /\ Set(w, [workers[w] EXCEPT
                              !.access_token = Some(IF expired THEN token_response.access_token
                                                    ELSE owner.access_token),
                              !.refresh_calls = IF expired THEN 1 ELSE 0,
                              !.list = Unwrap(answer),
                              !.pc = "CheckLiveUserMeetings: insert"])
           ELSE /\ Fail(w, "get_meetings")
                /\ UNCHANGED <<users, issued>>
    /\ UNCHANGED <<now, meetings, queue>>

\* zoom.rs: get_meetings, called with the access token of the row just read
get_meetings(w, answer) ==
    /\ At(w, "CheckLiveUserMeetings: get_meetings")
    /\ IF IsSome(answer)
       THEN Set(w, [workers[w] EXCEPT !.access_token = Some(Unwrap(workers[w].owner).access_token),
                                      !.list = Unwrap(answer),
                                      !.pc = "CheckLiveUserMeetings: insert"])
       ELSE Fail(w, "get_meetings")
    /\ UNCHANGED <<now, users, meetings, queue, issued>>

\* an insert with no conflict clause on a table with no unique index
InsertIgnoringConflicts(table, row) == Append(table, row)

\* INSERT .. ON CONFLICT (zoom_id) DO UPDATE
InsertOnConflictDoUpdate(table, row) ==
    IF \E i \in DOMAIN table : table[i].zoom_id = row.zoom_id
    THEN [i \in DOMAIN table |->
            IF table[i].zoom_id = row.zoom_id
            THEN [table[i] EXCEPT !.zoom_uuid = row.zoom_uuid, !.start_time = row.start_time,
                                  !.topic = row.topic, !.user_id = row.user_id]
            ELSE table[i]]
    ELSE Append(table, row)

\* INSERT .. ON CONFLICT (zoom_id) DO NOTHING
InsertOnConflictDoNothing(table, row) ==
    IF \E i \in DOMAIN table : table[i].zoom_id = row.zoom_id THEN table ELSE Append(table, row)

CheckLiveUserMeetings_insert(w, ok) ==
    /\ At(w, "CheckLiveUserMeetings: insert")
    /\ IF workers[w].list = <<>>
       THEN /\ ok
            /\ meetings' = meetings
            /\ Succeed(w)
       ELSE IF ok
       THEN LET uuid == Head(workers[w].list)
                start_time == now
            IN  /\ meetings' = InsertOnConflictDoNothing(meetings,
                                  NewMeeting(workers[w].job.arg, ZoomIdOf(uuid), uuid,
                                             start_time, None))
                \* inserts notes each statement's rows_affected, which the code drops
                /\ Set(w, [workers[w] EXCEPT
                              !.list = Tail(@),
                              !.inserts = Append(@, <<uuid, Len(meetings') - Len(meetings)>>)])
       ELSE /\ meetings' = meetings
            /\ Fail(w, "insert meeting")
    /\ UNCHANGED <<now, users, queue, issued>>

(************** jobs/check_live_meetings.rs: CheckLiveMeetings *************)
CheckLiveMeetings_select(w, ok) ==
    /\ At(w, "CheckLiveMeetings: select users")
    /\ IF ok
       THEN Set(w, [workers[w] EXCEPT !.list = Ascending(UserIds),
                                      !.pc = "CheckLiveMeetings: enqueue"])
       ELSE Fail(w, "select users")
    /\ UNCHANGED <<now, users, meetings, queue, issued>>

CheckLiveMeetings_enqueue(w, ok) ==
    /\ At(w, "CheckLiveMeetings: enqueue")
    /\ IF workers[w].list = <<>>
       THEN /\ ok
            /\ queue' = queue
            /\ Succeed(w)
       ELSE IF ok
       THEN /\ queue' = Enqueue(queue, Job("CheckLiveUserMeetings", Head(workers[w].list)))
            \* enqueued notes the entities a child job was enqueued for
            /\ Set(w, [workers[w] EXCEPT !.list = Tail(@),
                                         !.enqueued = Append(@, Head(workers[w].list))])
       ELSE /\ queue' = queue
            /\ Fail(w, "enqueue")
    /\ UNCHANGED <<now, users, meetings, issued>>

(******************************* the clock *********************************)
Tick ==
    /\ now < MaxTime
    /\ now' = now + 1
    /\ response' = NoResponse
    /\ UNCHANGED <<users, meetings, queue, workers, issued>>

(**************************** the state machine ****************************)
\* the state after construction: an empty database, an empty queue, idle workers
Init ==
    /\ now = 0
    /\ users = <<>>
    /\ meetings = <<>>
    /\ queue = EmptyBag
    /\ workers = [w \in Workers |-> IdleWorker]
    /\ issued = 0
    /\ response = NoResponse

FailChoices(req) == IF verify_zoom_signature(SecretToken, req) = "ok" THEN Stores ELSE {0}

\* what the provider can answer to the call a worker is about to make: an
\* error (None) or a body
RefreshAnswers(w) ==
    IF At(w, "access_token: refresh")
    THEN {None} \cup {Some(tr) : tr \in TokenResponses({Unwrap(workers[w].owner).refresh_token})}
    ELSE {}
ListingAnswers(w) ==
    IF At(w, "CheckLiveUserMeetings: get_meetings")
    THEN {None} \cup {Some(l) : l \in Listings(Unwrap(workers[w].owner).zoom_id)}
    ELSE {}

JobNames == {"CheckLiveMeetings", "EndActiveMeetings"}

WebhookStep ==
    \E req \in UNION {{[timestamp |-> ts, signature |-> sig, body |-> b] :
                           ts \in {None} \cup {Some(AsciiValue("1700000000")),
                                               Some([ascii |-> FALSE, text |-> "bytes"])},
                           sig \in SignatureHeaders(b)} : b \in Bodies} :
        \E failing \in FailChoices(req) : zoom_webhook(req, failing)
LoginStep == \E host \in {"h1", "h2", "h3"} : \E tr \in TokenResponses({}) : zoom_oauth(host, tr)
EditMeetingStep ==
    \E u \in UserIds : \E id \in {None} \cup {Some(i) : i \in 1..(Len(meetings) + 1)} :
    \E len \in LengthInputs : \E failing \in 0..1 :
        edit_meeting(u, id, len, failing)
UpdateSettingsStep ==
    \E u \in UserIds : \E len \in LengthInputs : \E failing \in 0..1 : update_settings(u, len, failing)
DebugStep ==
    \E u \in UserIds : \E failing \in Stores : \E channels_ok \in BOOLEAN :
        \E answer \in {None} \cup {Some(tr) : tr \in TokenResponses({users[u].refresh_token})} :
            \E listing \in {None} \cup {Some(l) : l \in UNION {[1..k -> ListedMeetings] :
                                                                k \in 0..MaxListed}} :
                live_api_debug(u, failing, answer, listing, channels_ok)
CronStep == \E name \in JobNames : cron_registry(name)
DequeueStep(W) == \E w \in W : \E job \in BagToSet(queue) : Dequeue(w, job)
FinishStep(W) == \E w \in W : Finish(w)
EndMeetingStep(W) ==
    \E w \in W : \E ok \in BOOLEAN :
        \/ EndMeeting_select_meeting(w, ok)
        \/ EndMeeting_select_owner(w, ok)
        \/ EndMeeting_check(w) /\ ok
        \/ \E status \in {204, 404} : adios(w, status) /\ ok
AccessTokenStep(W) ==
    \E w \in W :
        \/ access_token_check(w)
        \/ \E answer \in RefreshAnswers(w) : refresh_access_token(w, answer)
        \/ \E ok \in BOOLEAN : access_token_update_user(w, ok)
EndActiveMeetingsStep(W) ==
    \E w \in W : \E ok \in BOOLEAN :
        EndActiveMeetings_select(w, ok) \/ EndActiveMeetings_enqueue(w, ok)
CheckLiveUserMeetingsStep(W) ==
    \E w \in W :
        \/ \E ok \in BOOLEAN : CheckLiveUserMeetings_select_user(w, ok)
        \/ \E answer \in ListingAnswers(w) : get_meetings(w, answer)
        \/ \E ok \in BOOLEAN : CheckLiveUserMeetings_insert(w, ok)
CheckLiveMeetingsStep(W) ==
    \E w \in W : \E ok \in BOOLEAN :
        CheckLiveMeetings_select(w, ok) \/ CheckLiveMeetings_enqueue(w, ok)

\* The whole system: the clock, the HTTP handlers, the periodic triggers and
\* the job workers.
Next ==
    \/ Tick
    \/ WebhookStep
    \/ LoginStep
    \/ EditMeetingStep
    \/ UpdateSettingsStep
    \/ DebugStep
    \/ CronStep
    \/ DequeueStep(Workers)
    \/ FinishStep(Workers)
    \/ EndMeetingStep(Workers)
    \/ AccessTokenStep(Workers)
    \/ EndActiveMeetingsStep(Workers)
    \/ CheckLiveUserMeetingsStep(Workers)
    \/ CheckLiveMeetingsStep(Workers)

Spec == Init /\ [][Next]_vars

(***************************************************************************)
(* The whole system is too large to enumerate, so each group of properties *)
(* is checked under a specification that starts from a state the system    *)
(* reaches and takes the steps that read or write the state the properties *)
(* are about.  The actions are the ones above; only their inputs and the   *)
(* workers that run are narrowed.                                          *)
(***************************************************************************)
\* the row zoom_oauth stores for the n-th login, whose bundle expires at exp
LoggedIn(n, host, exp) ==
    [user_id |-> n, zoom_id |-> host, access_token |-> n, refresh_token |-> n,
     expires_at |-> exp, default_meeting_length_minutes |-> None]

\* after the hosts h1 and h2 have logged in (h3 never has)
InitTwoUsers ==
    /\ now = 0
    /\ users = <<LoggedIn(1, "h1", 10), LoggedIn(2, "h2", 10)>>
    /\ meetings = <<>>
    /\ queue = EmptyBag
    /\ workers = [w \in Workers |-> IdleWorker]
    /\ issued = 2
    /\ response = NoResponse

\* a request the provider signed
SignedRequest(body) ==
    [timestamp |-> Some(AsciiValue("1700000000")),
     signature |-> Some(SignatureFor(SecretToken, "1700000000", body)),
     body |-> body]

SignedWebhookStep == \E body \in Bodies : zoom_webhook(SignedRequest(body), 0)
SignedStartedStep ==
    \E p \in StartedPayloads : zoom_webhook(SignedRequest(Envelope("meeting.started", p)), 0)
\* the provider's signed meeting.started and meeting.ended events about the
\* meetings of host
SignedMeetingStep(host) ==
    \E u \in HostedBy(host) :
        \/ \E p \in {q \in StartedPayloads : q.uuid = u} :
              zoom_webhook(SignedRequest(Envelope("meeting.started", p)), 0)
        \/ \E p \in {q \in EndedPayloads : q.uuid = u} :
              zoom_webhook(SignedRequest(Envelope("meeting.ended", p)), 0)
OwnEditStep ==
    \E u \in UserIds : \E i \in MeetingIds : \E len \in LengthInputs :
        edit_meeting(u, Some(i), len, 0)
SettingsStep == \E u \in UserIds : \E len \in LengthInputs : update_settings(u, len, 0)

\* after only the host h1 has logged in
InitOneUser ==
    /\ now = 0
    /\ users = <<LoggedIn(1, "h1", 10)>>
    /\ meetings = <<>>
    /\ queue = EmptyBag
    /\ workers = [w \in Workers |-> IdleWorker]
    /\ issued = 1
    /\ response = NoResponse

\* after h1 has logged in at tick 0 and a meeting.started webhook has made a
\* row for its meeting, whose length the host may have edited since
InitOpenMeeting ==
    /\ now = 0
    /\ \E e \in ExpiresIn : users = <<LoggedIn(1, "h1", e)>>
    /\ \E s \in StartTimes : \E len \in {None, Some(1)} :
          meetings = <<[meeting_id |-> 1, user_id |-> 1, zoom_id |-> "z1", zoom_uuid |-> "u1",
                        start_time |-> s, end_time |-> None,
                        max_meeting_length_minutes |-> len, topic |-> Some("standup")]>>
    /\ queue = EmptyBag
    /\ workers = [w \in Workers |-> IdleWorker]
    /\ issued = 1
    /\ response = NoResponse

\* the webhook endpoint alone, under every request
SpecWebhook == InitTwoUsers /\ [][Tick \/ WebhookStep]_vars

\* the webhook endpoint under the requests the provider signed, with and
\* without store errors
SignedAnyStep ==
    \E body \in Bodies : \E failing \in Stores : zoom_webhook(SignedRequest(body), failing)
SpecSigned == InitTwoUsers /\ [][Tick \/ SignedAnyStep]_vars

\* the debug page, which lists the provider's live meetings with their live
\* durations
SpecDebug == InitOpenMeeting /\ [][Tick \/ DebugStep]_vars

\* the provider's signed meeting.ended events about the meetings of host
SignedEndedStep(host) ==
    \E p \in {q \in EndedPayloads : q.uuid \in HostedBy(host)} :
        zoom_webhook(SignedRequest(Envelope("meeting.ended", p)), 0)

\* the termination sweep on one worker against the provider's meeting.ended
\* events
SpecTermination == InitOpenMeeting /\ [][
        \/ Tick
        \/ SignedEndedStep("h1")
        \/ cron_registry("EndActiveMeetings")
        \/ DequeueStep({"w1"})
        \/ FinishStep({"w1"})
        \/ EndActiveMeetingsStep({"w1"})
        \/ EndMeetingStep({"w1"})
        \/ AccessTokenStep({"w1"})
    ]_vars

\* the termination sweep when the store, the token endpoint and the provider
\* answer every call with success; a refreshed token outlasts the buffer
LiveRefreshAnswers(w) ==
    {a \in RefreshAnswers(w) :
        a # None /\ \A e \in ExpiresIn : Unwrap(a).expires_in >= e}
LiveCron == cron_registry("EndActiveMeetings")
LiveDequeue(job) == Dequeue("w1", job)
LiveFinish == Finish("w1")
LiveEndActiveMeetings ==
    EndActiveMeetings_select("w1", TRUE) \/ EndActiveMeetings_enqueue("w1", TRUE)
LiveEndMeeting ==
    \/ EndMeeting_select_meeting("w1", TRUE)
    \/ EndMeeting_select_owner("w1", TRUE)
    \/ EndMeeting_check("w1")
    \/ adios("w1", 204)
LiveAccessToken ==
    \/ access_token_check("w1")
    \/ \E answer \in LiveRefreshAnswers("w1") : refresh_access_token("w1", answer)
    \/ access_token_update_user("w1", TRUE)
LiveJobs == {Job("EndActiveMeetings", 0), Job("EndMeeting", 1)}
\* the periodic trigger fires again and again, the worker goes on with the job
\* it runs, and an idle worker takes a queued job
Fairness ==
    /\ WF_vars(LiveCron)
    /\ WF_vars(LiveFinish)
    /\ WF_vars(LiveEndActiveMeetings)
    /\ WF_vars(LiveEndMeeting)
    /\ WF_vars(LiveAccessToken)
    /\ \A job \in LiveJobs : WF_vars(LiveDequeue(job))
SpecLive == InitOpenMeeting /\ [][
        \/ Tick
        \/ LiveCron
        \/ \E job \in LiveJobs : LiveDequeue(job)
        \/ LiveFinish
        \/ LiveEndActiveMeetings
        \/ LiveEndMeeting
        \/ LiveAccessToken
    ]_vars /\ Fairness

\* the two sweeps alone on one worker, over the rows the provider's events
\* about one meeting of each user make and close; the child jobs stay in the
\* queue
SweepMeetingStep ==
    \E u \in {"u1", "u3"} :
        \/ \E p \in {q \in StartedPayloads : q.uuid = u /\ q.start_time = 0 - Minutes(38)} :
              zoom_webhook(SignedRequest(Envelope("meeting.started", p)), 0)
        \/ \E p \in {q \in EndedPayloads : q.uuid = u /\ q.end_time = Some(1)} :
              zoom_webhook(SignedRequest(Envelope("meeting.ended", p)), 0)
SweepDequeue == \E job \in BagToSet(queue) : job.name \in JobNames /\ Dequeue("w1", job)
SpecSweeps == InitTwoUsers /\ [][
        \/ Tick
        \/ SweepMeetingStep
        \/ CronStep
        \/ SweepDequeue
        \/ FinishStep({"w1"})
        \/ EndActiveMeetingsStep({"w1"})
        \/ CheckLiveMeetingsStep({"w1"})
    ]_vars

\* after h1 and h2 have logged in and each has an open meeting over its limit;
\* the token of h1 has expired
InitTwoMeetings ==
    /\ now = 0
    /\ users = <<LoggedIn(1, "h1", 0 - 1), LoggedIn(2, "h2", 10)>>
    /\ meetings = <<[meeting_id |-> 1, user_id |-> 1, zoom_id |-> "z1", zoom_uuid |-> "u1",
                     start_time |-> 0 - Minutes(DEFAULT_MAX_MEETING_LENGTH_MINUTES),
                     end_time |-> None, max_meeting_length_minutes |-> Some(1),
                     topic |-> Some("standup")],
                    [meeting_id |-> 2, user_id |-> 2, zoom_id |-> "z2", zoom_uuid |-> "u3",
                     start_time |-> 0 - Minutes(38),
                     end_time |-> None, max_meeting_length_minutes |-> Some(1),
                     topic |-> Some("standup")]>>
    /\ queue = EmptyBag
    /\ workers = [w \in Workers |-> IdleWorker]
    /\ issued = 2
    /\ response = NoResponse

\* both sweeps and their child jobs on one worker, every step failing or not
SpecFanOut == InitTwoMeetings /\ [][
        \/ CronStep
        \/ DequeueStep({"w1"})
        \/ FinishStep({"w1"})
        \/ EndActiveMeetingsStep({"w1"})
        \/ EndMeetingStep({"w1"})
        \/ AccessTokenStep({"w1"})
        \/ CheckLiveMeetingsStep({"w1"})
        \/ CheckLiveUserMeetingsStep({"w1"})
    ]_vars

\* both sweeps and their child jobs on one worker when the work for user 1 and
\* for meeting 1 fails (at any step, at the provider call at the latest) and
\* every other call succeeds
Failing(w) == workers[w].job.arg = 1 /\ workers[w].job.name \in {"EndMeeting", "CheckLiveUserMeetings"}
OkChoices(w) == IF Failing(w) THEN BOOLEAN ELSE {TRUE}
IsoDequeue(job) == Dequeue("w1", job)
IsoFinish == Finish("w1")
IsoSweeps ==
    \/ EndActiveMeetings_select("w1", TRUE)
    \/ EndActiveMeetings_enqueue("w1", TRUE)
    \/ CheckLiveMeetings_select("w1", TRUE)
    \/ CheckLiveMeetings_enqueue("w1", TRUE)
IsoEndMeeting ==
    \/ \E ok \in OkChoices("w1") :
          \/ EndMeeting_select_meeting("w1", ok)
          \/ EndMeeting_select_owner("w1", ok)
          \/ access_token_update_user("w1", ok)
    \/ EndMeeting_check("w1")
    \/ access_token_check("w1")
    \/ \E answer \in RefreshAnswers("w1") :
          (Failing("w1") \/ answer # None) /\ refresh_access_token("w1", answer)
    \/ adios("w1", IF Failing("w1") THEN 404 ELSE 204)
IsoCheckLiveUserMeetings ==
    \/ \E ok \in OkChoices("w1") :
          \/ CheckLiveUserMeetings_select_user("w1", ok)
          \/ CheckLiveUserMeetings_insert("w1", ok)
    \/ \E answer \in ListingAnswers("w1") :
          (Failing("w1") <=> answer = None) /\ get_meetings("w1", answer)
IsoJobs ==
    {Job(name, 0) : name \in JobNames} \cup
    {Job(name, arg) : name \in {"EndMeeting", "CheckLiveUserMeetings"}, arg \in 1..2}
\* the worker goes on with the job it runs, and no queued job is passed over
\* for ever (the queue is served oldest job first)
IsoFairness ==
    /\ WF_vars(IsoFinish)
    /\ WF_vars(IsoSweeps)
    /\ WF_vars(IsoEndMeeting)
    /\ WF_vars(IsoCheckLiveUserMeetings)
    /\ \A job \in IsoJobs : SF_vars(IsoDequeue(job))
SpecIsolation == InitTwoMeetings /\ [][
        \/ CronStep
        \/ \E job \in IsoJobs : IsoDequeue(job)
        \/ IsoFinish
        \/ IsoSweeps
        \/ IsoEndMeeting
        \/ IsoCheckLiveUserMeetings
    ]_vars /\ IsoFairness

\* every writer that a job or a webhook runs (the jobs on one worker, the
\* provider's meeting.ended events about the meetings of h1), after h1 and h2
\* have logged in, the token of h1 has expired and a meeting.started webhook
\* has made a row for a meeting of h1, who has shortened it
SpecWriters ==
    /\ now = 0
    /\ users = <<LoggedIn(1, "h1", 1), LoggedIn(2, "h2", 10)>>
    /\ meetings = <<[meeting_id |-> 1, user_id |-> 1, zoom_id |-> "z1", zoom_uuid |-> "u1",
                     start_time |-> 0 - Minutes(DEFAULT_MAX_MEETING_LENGTH_MINUTES),
                     end_time |-> None, max_meeting_length_minutes |-> Some(1),
                     topic |-> Some("standup")]>>
    /\ queue = EmptyBag
    /\ workers = [w \in Workers |-> IdleWorker]
    /\ issued = 2
    /\ response = NoResponse
    /\ [][
          \/ SignedEndedStep("h1")
          \/ CronStep
          \/ DequeueStep({"w1"})
          \/ FinishStep({"w1"})
          \/ EndActiveMeetingsStep({"w1"})
          \/ EndMeetingStep({"w1"})
          \/ AccessTokenStep({"w1"})
          \/ CheckLiveMeetingsStep({"w1"})
          \/ CheckLiveUserMeetingsStep({"w1"})
         ]_vars

\* the termination sweep on one worker while the host sets the override of
\* the meeting to 60 minutes and the default length to 1 minute and the
\* provider reports the end of the meeting
SpecEdits == InitOpenMeeting /\ [][
        \/ Tick
        \/ \E p \in {q \in EndedPayloads : q.uuid = "u1" /\ q.end_time = Some(1)} :
              zoom_webhook(SignedRequest(Envelope("meeting.ended", p)), 0)
        \/ edit_meeting(1, Some(1), Some(60), 0)
        \/ update_settings(1, Some(1), 0)
        \/ cron_registry("EndActiveMeetings")
        \/ DequeueStep({"w1"})
        \/ FinishStep({"w1"})
        \/ EndActiveMeetingsStep({"w1"})
        \/ EndMeetingStep({"w1"})
        \/ AccessTokenStep({"w1"})
    ]_vars

\* the edit form under every request of either user, while the provider
\* reports the start and the end of a meeting of each
SpecOwnership == InitTwoMeetings /\ [][Tick \/ EditMeetingStep \/ SweepMeetingStep]_vars

\* the duration policy: rows made and closed by webhooks, lengths edited
SpecPolicy == InitOneUser /\ [][Tick \/ SignedWebhookStep \/ OwnEditStep \/ SettingsStep]_vars

\* discovery by one worker against meeting.started webhooks
SpecDiscovery == InitTwoUsers /\ [][
        \/ Tick
        \/ SignedStartedStep
        \/ cron_registry("CheckLiveMeetings")
        \/ DequeueStep({"w1"})
        \/ FinishStep({"w1"})
        \/ CheckLiveMeetingsStep({"w1"})
        \/ CheckLiveUserMeetingsStep({"w1"})
    ]_vars

\* the writers of the meetings table: the provider's events about the user's
\* meetings, the user's edits and the discovery sweep
SpecStore == InitOneUser /\ [][
        \/ Tick
        \/ SignedMeetingStep("h1")
        \/ OwnEditStep
        \/ cron_registry("CheckLiveMeetings")
        \/ DequeueStep({"w1"})
        \/ FinishStep({"w1"})
        \/ CheckLiveMeetingsStep({"w1"})
        \/ CheckLiveUserMeetingsStep({"w1"})
    ]_vars

\* the termination sweep and the token cache, on both workers
SpecToken == InitOpenMeeting /\ [][
        \/ Tick
        \/ cron_registry("EndActiveMeetings")
        \/ DequeueStep(Workers)
        \/ FinishStep(Workers)
        \/ EndActiveMeetingsStep(Workers)
        \/ EndMeetingStep(Workers)
        \/ AccessTokenStep(Workers)
    ]_vars

(***************************************************************************)
(*                              Properties                                 *)
(***************************************************************************)

\* C1: a meeting's end_time, once non-null, never becomes null again and
\* never moves to an earlier instant, whatever webhooks, jobs and edits run.
C1_EndTimeMonotonic ==
    [][\A i \in MeetingIds :
          IsSome(meetings[i].end_time) =>
              /\ i \in DOMAIN meetings'
              /\ IsSome(meetings'[i].end_time)
              /\ Unwrap(meetings'[i].end_time) >= Unwrap(meetings[i].end_time)]_vars

\* C2: the meetings table never holds two rows with the same provider
\* instance id (zoom_uuid), under any interleaving of discovery inserts and
\* meeting.started inserts.
C2_OneRowPerInstance ==
    \A i, j \in MeetingIds : meetings[i].zoom_uuid = meetings[j].zoom_uuid => i = j

\* both insert paths have acted: one row came from discovery (no topic), one
\* from a meeting.started webhook, and a discovery insert met a conflict
C2_Witness ==
    /\ \E i, j \in MeetingIds : meetings[i].topic = None /\ meetings[j].topic # None
    /\ \E k \in DOMAIN workers["w1"].inserts : workers["w1"].inserts[k][2] = 0

\* the discovery insert statement of worker w ran, on a listed instance that
\* already has a row whose topic is as given by made_by_webhook
ResightedInsert(w, made_by_webhook) ==
    /\ At(w, "CheckLiveUserMeetings: insert")
    /\ workers[w].list # <<>>
    /\ workers'[w].list = Tail(workers[w].list)
    /\ \E i \in MeetingIds :
          /\ meetings[i].zoom_uuid = Head(workers[w].list)
          /\ (meetings[i].topic # None) = made_by_webhook

\* a run of w logged an insert of uuid that affected no row, and the row that
\* holds uuid is as given by made_by_webhook
SkippedInsert(w, made_by_webhook) ==
    \E k \in DOMAIN workers[w].inserts : \E i \in MeetingIds :
        /\ workers[w].inserts[k] = <<meetings[i].zoom_uuid, 0>>
        /\ (meetings[i].topic # None) = made_by_webhook

\* C3: when discovery sights an instance id that discovery has already
\* inserted, the insert is a no-op: no row is added and no field of any row
\* changes.
C3_DiscoveryTwiceIsNoOp ==
    [][\A w \in Workers : ResightedInsert(w, FALSE) => meetings' = meetings]_vars

\* an insert of a sighted instance affected no row, and the row discovery
\* had made for it carries an end time and an override
C3_Witness ==
    \E w \in Workers : \E k \in DOMAIN workers[w].inserts : \E i \in MeetingIds :
        /\ workers[w].inserts[k] = <<meetings[i].zoom_uuid, 0>>
        /\ meetings[i].topic = None
        /\ meetings[i].end_time # None
        /\ meetings[i].max_meeting_length_minutes # None

\* C4: when discovery sights an instance id whose row a meeting.started
\* webhook created, no second row is created and the webhook's row keeps its
\* start_time, topic and owner.
C4_DiscoveryKeepsWebhookRow ==
    [][\A w \in Workers :
          ResightedInsert(w, TRUE) =>
              /\ Len(meetings') = Len(meetings)
              /\ \A i \in MeetingIds :
                    /\ meetings'[i].start_time = meetings[i].start_time
                    /\ meetings'[i].topic = meetings[i].topic
                    /\ meetings'[i].user_id = meetings[i].user_id]_vars

C4_Witness == \E w \in Workers : SkippedInsert(w, TRUE)

\* C5: max_duration is the meeting's override if set, else the user's
\* default if set, else 40 minutes, for every meeting and user; it always
\* yields a duration.
C5_MaxDurationPrecedence ==
    \A i \in MeetingIds : \A j \in UserIds :
        LET m == meetings[i]
            u == users[j]
            max == max_duration(m, u)
        IN  /\ max \in Int
            /\ m.max_meeting_length_minutes # None =>
                  max = Unwrap(m.max_meeting_length_minutes) * TicksPerMinute
            /\ (m.max_meeting_length_minutes = None /\ u.default_meeting_length_minutes # None) =>
                  max = Unwrap(u.default_meeting_length_minutes) * TicksPerMinute
            /\ (m.max_meeting_length_minutes = None /\ u.default_meeting_length_minutes = None) =>
                  max = 40 * TicksPerMinute

\* an override shorter than the user's default is in force
C5_Witness ==
    \E i \in MeetingIds : \E j \in UserIds :
        /\ meetings[i].max_meeting_length_minutes # None
        /\ users[j].default_meeting_length_minutes # None
        /\ Unwrap(meetings[i].max_meeting_length_minutes)
              < Unwrap(users[j].default_meeting_length_minutes)
        /\ max_duration(meetings[i], users[j])
              = Unwrap(meetings[i].max_meeting_length_minutes) * TicksPerMinute

\* max_duration - duration of a meeting and its owner at the current instant
Remaining(i) == max_duration(meetings[i], users[meetings[i].user_id]) - duration(meetings[i], now)
MinutesRemaining(i) == minutes_remaining(meetings[i], users[meetings[i].user_id], now)

\* C6 as stated: minutes_remaining is the floor, in whole minutes, of
\* max_duration - duration, also when that difference is negative and not a
\* whole number of minutes.
C6_MinutesRemainingIsFloor ==
    \A i \in MeetingIds :
        /\ MinutesRemaining(i) * TicksPerMinute <= Remaining(i)
        /\ Remaining(i) < (MinutesRemaining(i) + 1) * TicksPerMinute

\* C6 as amended: minutes_remaining is max_duration - duration in whole
\* minutes, rounded toward zero: down when the difference is positive, up
\* when it is negative.  An open meeting started 38 minutes ago, with no
\* override and no user default, has 2 minutes left.
C6_MinutesRemainingTruncates ==
    \A i \in MeetingIds :
        /\ Remaining(i) >= 0 =>
              /\ MinutesRemaining(i) * TicksPerMinute <= Remaining(i)
              /\ Remaining(i) < (MinutesRemaining(i) + 1) * TicksPerMinute
        /\ Remaining(i) < 0 =>
              /\ (MinutesRemaining(i) - 1) * TicksPerMinute < Remaining(i)
              /\ Remaining(i) <= MinutesRemaining(i) * TicksPerMinute
        /\ ( /\ meetings[i].end_time = None
             /\ meetings[i].start_time = now - 38 * TicksPerMinute
             /\ meetings[i].max_meeting_length_minutes = None
             /\ users[meetings[i].user_id].default_meeting_length_minutes = None )
           => MinutesRemaining(i) = 2

\* a meeting is over its length by a part of a minute
C6_Witness ==
    \E i \in MeetingIds :
        /\ Remaining(i) < 0
        /\ Remaining(i) % TicksPerMinute # 0
        /\ MinutesRemaining(i) * TicksPerMinute > Remaining(i)

\* worker w takes the step of access_token that decides between the stored
\* token and a refresh
DecidesToken(w) == At(w, "access_token: check") /\ ~(workers'[w].pc = "access_token: check")
ReturnsStoredToken(w) ==
    /\ workers'[w].pc = "EndMeeting: adios"
    /\ workers'[w].access_token = Some(Unwrap(workers[w].owner).access_token)
    /\ workers'[w].refresh_calls = 0
    /\ issued' = issued
    /\ users' = users
GoesToRefresh(w) == workers'[w].pc = "access_token: refresh"
CallsRefresh(w) ==
    (At(w, "access_token: refresh") /\ workers'[w] # workers[w])
        => workers'[w].refresh_calls = workers[w].refresh_calls + 1

\* C7 as stated: the stored token is returned without a refresh call if and
\* only if now + 60s < expires_at; in every other case, now + 60s =
\* expires_at included, the refresh endpoint is called.
C7_CachedIffStrictlyBeforeBuffer ==
    [][\A w \in Workers :
          /\ DecidesToken(w) =>
                LET fresh == now + BufferTicks < Unwrap(workers[w].owner).expires_at
                IN  /\ fresh => ReturnsStoredToken(w)
                    /\ ~fresh => GoesToRefresh(w)
          /\ CallsRefresh(w)]_vars

\* C7 as amended: the stored token is returned without a refresh call if and
\* only if now + 60s <= expires_at; the refresh endpoint is called exactly
\* when expires_at < now + 60s.  A token expiring in 30 seconds is refreshed,
\* one expiring in 5 minutes is not.
C7_CachedIffNotBeforeBuffer ==
    [][\A w \in Workers :
          /\ DecidesToken(w) =>
                LET expires_at == Unwrap(workers[w].owner).expires_at
                    fresh == now + BufferTicks <= expires_at
                IN  /\ fresh => ReturnsStoredToken(w)
                    /\ ~fresh => GoesToRefresh(w)
                    /\ (expires_at - now) * 60 = 30 * TicksPerMinute => GoesToRefresh(w)
                    /\ expires_at - now = 5 * TicksPerMinute => ReturnsStoredToken(w)
          /\ CallsRefresh(w)]_vars

\* a token that expires exactly 60 seconds from now was returned as stored
C7_Witness ==
    \E w \in Workers :
        /\ At(w, "EndMeeting: adios")
        /\ workers[w].refresh_calls = 0
        /\ Unwrap(workers[w].owner).expires_at = now + BufferTicks

\* C8: after a successful refresh the user's row holds the new access token,
\* the refresh token the provider returned and the new expiry, and the call
\* returns the new access token.
C8_RefreshPersistsBundle ==
    [][\A w \in Workers :
          (At(w, "access_token: update user") /\ workers'[w].pc = "EndMeeting: adios") =>
              LET token_response == Unwrap(workers[w].token_response)
                  row == users'[Unwrap(workers[w].owner).user_id]
              IN  /\ row.access_token = token_response.access_token
                  /\ row.refresh_token = token_response.refresh_token
                  /\ row.expires_at = now + token_response.expires_in
                  /\ workers'[w].access_token = Some(token_response.access_token)]_vars

\* C9: when the refresh call fails, the run ends with that failure after
\* exactly one call of the refresh endpoint, terminate is not called, and the
\* users table is as it was.
C9_RefreshFailurePropagates ==
    [][\A w \in Workers :
          ( /\ At(w, "access_token: refresh")
            /\ workers'[w] # workers[w]
            /\ workers'[w].token_response = None ) =>
              /\ workers'[w].pc = "done"
              /\ workers'[w].result = "Err"
              /\ workers'[w].refresh_calls = 1
              /\ workers'[w].adios_calls = 0
              /\ users' = users]_vars

C9_Witness ==
    \E w \in Workers :
        /\ At(w, "done")
        /\ workers[w].failed_at = "refresh"
        /\ workers[w].result = "Err"
        /\ workers[w].refresh_calls = 1

\* C10: a webhook request whose x-zm-signature is not the HMAC under the
\* configured secret is answered with 400 and changes neither the meetings
\* nor the users, whatever its body.
C10_BadSignatureRejected ==
    [][response'.signed = "mismatch" =>
          /\ response'.status = 400
          /\ ~response'.panicked
          /\ meetings' = meetings
          /\ users' = users]_vars

\* a request with a mismatching signature was refused while rows exist
C10_Witness ==
    /\ response.signed = "mismatch"
    /\ response.status = 400
    /\ Len(meetings) > 0

\* C11: the webhook handler verifies the signature before it decodes the body
\* or processes the event: verification is the first step of every request,
\* and a request whose signature is not valid reaches no decode step and no
\* store statement.
C11_VerifyBeforeDecode ==
    [][/\ response'.steps # <<>> => Head(response'.steps) = "verify"
       /\ response'.signed \in {"mismatch", "header missing", "timestamp unreadable"} =>
              /\ response'.steps = <<"verify">>
              /\ meetings' = meetings
              /\ users' = users]_vars

\* a request with a mismatching signature was refused at the verify step
C11_Witness ==
    /\ response.signed = "mismatch"
    /\ response.reason = "Invalid zoom webhook signature"
    /\ response.steps = <<"verify">>

\* the four event names the handler knows

\* the step is the handling of the provider-signed request with this body
Handles(body) == \E failing \in Stores : zoom_webhook(SignedRequest(body), failing)

\* C12: a correctly signed webhook whose event name is none of the four known
\* names is answered with 400 and changes no stored state.
C12_UnknownEventRejected ==
    [][\A body \in {b \in Bodies : b.json} :
          (/\ body.event \notin {"meeting.started", "meeting.ended",
                                  "meeting.participant_joined", "meeting.participant_left"}
           /\ Handles(body)) =>
              /\ response'.status = 400
              /\ ~response'.panicked
              /\ meetings' = meetings
              /\ users' = users]_vars

\* a signed request with an unknown event name was refused while rows exist
C12_Witness ==
    /\ response.signed = "match"
    /\ response.status = 400
    /\ response.reason = "Invalid zoom webhook body: Unknown event type"
    /\ Len(meetings) > 0

\* C13: a meeting.started webhook whose host matches no local user is
\* answered with an error, creates no user and inserts no meeting row.
C13_UnknownHostRejected ==
    [][\A p \in StartedPayloads :
          (UsersByZoomId(p.host_id) = {} /\ Handles(Envelope("meeting.started", p))) =>
              /\ response'.status = 400
              /\ response'.reason = "User not found"
              /\ users' = users
              /\ meetings' = meetings]_vars

\* a signed meeting.started was refused for its host, beside a stored meeting
C13_Witness ==
    /\ response.signed = "match"
    /\ response.reason = "User not found"
    /\ response.steps = <<"verify", "decode", "try_from", "process", "select user">>
    /\ Len(meetings) > 0

\* the rows of the instance a payload is about
RowsOf(uuid) == {i \in MeetingIds : meetings[i].zoom_uuid = uuid}

\* C14: a meeting.ended webhook for an instance id with no matching row is
\* answered with 400, never with success, and leaves the store unchanged.
C14_EndedWithoutRowRejected ==
    [][\A p \in EndedPayloads :
          (RowsOf(p.uuid) = {} /\ Handles(Envelope("meeting.ended", p))) =>
              /\ response'.status = 400
              /\ response'.reason = "DB Error"
              /\ meetings' = meetings
              /\ users' = users]_vars

\* a signed meeting.ended found no row to update, beside the row of another
\* instance
C14_Witness ==
    /\ response.signed = "match"
    /\ response.status = 400
    /\ response.steps = <<"verify", "decode", "try_from", "process", "update meeting">>
    /\ Len(meetings) > 0

\* C15: after a meeting.ended webhook is answered with success, the row matched
\* by the instance id has a non-null end time, so it is not among the rows a
\* later EndActiveMeetings run selects (end_time is NULL).
C15_EndedRowIsClosed ==
    [][\A p \in EndedPayloads :
          (Handles(Envelope("meeting.ended", p)) /\ response'.status = 200) =>
              \A i \in RowsOf(p.uuid) :
                  /\ IsSome(meetings'[i].end_time)
                  /\ i \notin {j \in DOMAIN meetings' : meetings'[j].end_time = None}]_vars

\* the participant events, with the payloads of their types

\* C16: a correctly signed meeting.participant_joined or
\* meeting.participant_left webhook is answered with success and leaves every
\* meeting row and every user row unchanged.
C16_ParticipantEventsNoOp ==
    [][\A body \in {Envelope("meeting.participant_joined", [shape |-> "participant_joined"]),
                    Envelope("meeting.participant_left", [shape |-> "participant_left"])} :
          zoom_webhook(SignedRequest(body), 0) =>
              /\ response'.status = 200
              /\ meetings' = meetings
              /\ users' = users]_vars

\* a participant event was accepted without a store statement while open
\* rows exist
C16_Witness ==
    /\ response.signed = "match"
    /\ response.status = 200
    /\ response.steps = <<"verify", "decode", "try_from", "process">>
    /\ \E i \in MeetingIds : meetings[i].end_time = None

\* C17: every inbound webhook request is answered with 200 or 400; a correctly
\* signed request whose body does not decode as the {event, payload} envelope
\* is answered with 400 and a reason, and changes no stored state.
C17_DecodeFailureAnswered ==
    [][response'.signed # "" =>
          /\ response'.status \in {200, 400}
          /\ ~response'.panicked
          /\ zoom_webhook(SignedRequest(NotJson), 0) =>
                /\ response'.status = 400
                /\ response'.reason \notin {"", "panic"}
                /\ meetings' = meetings
                /\ users' = users]_vars

\* C18: live_duration of a listed meeting of type 4 (Personal Meeting Room)
\* is a failure and never a number, for every created_at and every current
\* time, as a function and in every page the debug handler renders.
C18_PersonalRoomDurationFails ==
    /\ \A m \in ListedMeetings : \A t \in 0..MaxTime :
          m.type = 4 => ~live_duration(m, t).ok
    /\ response.reason = "Meetings" =>
          \A k \in DOMAIN response.steps :
              response.steps[k].meeting.type = 4 =>
                  /\ response.steps[k].live_duration = live_duration(response.steps[k].meeting, now)
                  /\ ~response.steps[k].live_duration.ok

\* the page listed a Personal Meeting Room whose created_at parses, with no
\* live duration
C18_Witness ==
    /\ response.reason = "Meetings"
    /\ \E k \in DOMAIN response.steps :
          /\ response.steps[k].meeting.type = 4
          /\ response.steps[k].meeting.created_at # None
          /\ ~response.steps[k].live_duration.ok

\* C19: the termination path (EndActiveMeetings, EndMeeting) never writes a
\* meeting's end time: every step in which an end_time goes from null to
\* non-null is the handling of a meeting.ended webhook, and no step of a
\* termination job changes the meetings table.
C19_OnlyEndedWebhookSetsEndTime ==
    [][/\ (\E i \in MeetingIds :
              /\ meetings[i].end_time = None
              /\ i \in DOMAIN meetings'
              /\ meetings'[i].end_time # None) =>
                  \E p \in EndedPayloads : zoom_webhook(SignedRequest(Envelope("meeting.ended", p)), 0)
       /\ \A w \in Workers :
              ( /\ workers[w].job.name \in {"EndActiveMeetings", "EndMeeting"}
                /\ workers'[w] # workers[w] ) => meetings' = meetings]_vars

\* a run called terminate with success and the meeting's row is still open
C19_Witness ==
    \E w \in Workers :
        /\ workers[w].adios_calls = 1
        /\ workers[w].result = "Ok"
        /\ meetings[Unwrap(workers[w].meeting).meeting_id].end_time = None

\* the steps of an EndMeeting run between its decision and its terminate call
TerminatePath ==
    {"access_token: check", "access_token: refresh", "access_token: update user",
     "EndMeeting: adios"}

\* the row the run of w read is open and strictly over its limit at time t
OverLimit(w, t) ==
    LET meeting == Unwrap(workers[w].meeting)
        owner == Unwrap(workers[w].owner)
    IN  /\ ~is_ended(meeting)
        /\ duration(meeting, t) > max_duration(meeting, owner)

\* C20 (as stated): an EndMeeting run that read its rows has called terminate
\* when it ends if and only if the meeting row it read is open and
\* duration > max_duration.
C20_TerminateIffOverLimit ==
    [][\A w \in Workers :
          ( /\ workers[w].pc \in TerminatePath \cup {"EndMeeting: check"}
            /\ workers'[w].pc = "done" ) =>
              (workers'[w].adios_calls > 0 <=> OverLimit(w, now))]_vars

\* C20 (amended): the run goes on to fetch the owner's token and call
\* terminate if and only if the meeting row it read is open and
\* duration > max_duration; otherwise it ends with success after no provider
\* call and no token refresh.  Tokens are refreshed and terminate is called
\* only on that path, and the path ends either in the terminate call or in
\* the failure of fetching the token.
C20_TerminateOnlyIfOverLimit ==
    [][\A w \in Workers :
          /\ ( At(w, "EndMeeting: check") /\ workers'[w] # workers[w] ) =>
                IF OverLimit(w, now)
                THEN /\ workers'[w].pc = "access_token: check"
                     /\ workers'[w].adios_calls = 0
                     /\ workers'[w].refresh_calls = 0
                ELSE /\ workers'[w].pc = "done"
                     /\ workers'[w].result = "Ok"
                     /\ workers'[w].adios_calls = 0
                     /\ workers'[w].refresh_calls = 0
          /\ workers[w].pc \in TerminatePath => OverLimit(w, now)
          /\ ( \/ workers'[w].adios_calls > workers[w].adios_calls
               \/ workers'[w].refresh_calls > workers[w].refresh_calls ) =>
                workers[w].pc \in TerminatePath
          /\ ( workers[w].pc \in TerminatePath /\ workers'[w].pc = "done" ) =>
                \/ workers'[w].adios_calls = 1
                \/ /\ workers'[w].adios_calls = 0
                   /\ workers'[w].result = "Err"
                   /\ workers'[w].failed_at \in {"refresh", "update user"}]_vars

\* a run read an open meeting whose duration equals its limit and ended with
\* success without a refresh or a terminate call
C20_Witness ==
    \E w \in Workers :
        /\ At(w, "done")
        /\ workers[w].job.name = "EndMeeting"
        /\ workers[w].result = "Ok"
        /\ workers[w].meeting # None
        /\ workers[w].owner # None
        /\ ~is_ended(Unwrap(workers[w].meeting))
        /\ duration(Unwrap(workers[w].meeting), now)
              = max_duration(Unwrap(workers[w].meeting), Unwrap(workers[w].owner))
        /\ workers[w].adios_calls = 0
        /\ workers[w].refresh_calls = 0

\* the row the EndMeeting run of w read has its end time set
ReadEnded(w) ==
    /\ workers[w].job.name = "EndMeeting"
    /\ workers[w].meeting # None
    /\ is_ended(Unwrap(workers[w].meeting))

\* C21: an EndMeeting run whose meeting row has its end time present makes no
\* token refresh and no terminate call and completes with success: its check
\* step ends the run with Ok, and it is never on the way to the terminate call.
C21_EndedMeetingIsNoOp ==
    [][\A w \in Workers :
          ReadEnded(w) =>
              /\ workers[w].pc \notin TerminatePath
              /\ workers[w].adios_calls = 0
              /\ workers[w].refresh_calls = 0
              /\ ( At(w, "EndMeeting: check") /\ workers'[w] # workers[w] ) =>
                    /\ workers'[w].pc = "done"
                    /\ workers'[w].result = "Ok"
                    /\ workers'[w].adios_calls = 0
                    /\ workers'[w].refresh_calls = 0
                    /\ users' = users
                    /\ meetings' = meetings]_vars

\* a run read a closed row whose duration is over its limit and ended with
\* success without a refresh or a terminate call
C21_Witness ==
    \E w \in Workers :
        /\ ReadEnded(w)
        /\ workers[w].owner # None
        /\ duration(Unwrap(workers[w].meeting), now)
              > max_duration(Unwrap(workers[w].meeting), Unwrap(workers[w].owner))
        /\ At(w, "done")
        /\ workers[w].result = "Ok"
        /\ workers[w].adios_calls = 0
        /\ workers[w].refresh_calls = 0

\* C22 (as stated): when terminate is called for a meeting the provider has
\* already ended while its row is still open, and the provider answers that
\* no such meeting is in progress, the EndMeeting run does not fail.
C22_AlreadyOverIsSuccess ==
    [][\A w \in Workers :
          ( /\ At(w, "EndMeeting: adios")
            /\ workers'[w].adios_calls = 1
            /\ workers'[w].adios_status = 404 ) =>
              workers'[w].result = "Ok"]_vars

\* C23 (as stated): a discovery insert for a listed instance id that has no
\* row leaves a row with that instance id in the table, also when a row with
\* the same provider meeting id and another instance id exists.
C23_DiscoveryInsertsEveryNewInstance ==
    [][\A w \in Workers :
          ( /\ At(w, "CheckLiveUserMeetings: insert")
            /\ workers[w].list # <<>>
            /\ workers'[w].list = Tail(workers[w].list)
            /\ ~\E i \in MeetingIds : meetings[i].zoom_uuid = Head(workers[w].list) ) =>
              \E i \in DOMAIN meetings' : meetings'[i].zoom_uuid = Head(workers[w].list)]_vars

\* the row i is open and strictly over its limit
OpenOverLimit(i) ==
    /\ i \in MeetingIds
    /\ ~is_ended(meetings[i])
    /\ duration(meetings[i], now) > max_duration(meetings[i], users[meetings[i].user_id])

\* a run has called terminate for the meeting of row i
TerminateCalled(i) ==
    \E w \in Workers :
        /\ workers[w].job = Job("EndMeeting", i)
        /\ workers[w].adios_calls = 1

Enumeration(name) ==
    IF name = "EndActiveMeetings" THEN {i \in MeetingIds : meetings[i].end_time = None}
    ELSE UserIds
ChildJob(name) == IF name = "EndActiveMeetings" THEN "EndMeeting" ELSE "CheckLiveUserMeetings"
SelectStep(name) ==
    IF name = "EndActiveMeetings" THEN "EndActiveMeetings: select meetings"
    ELSE "CheckLiveMeetings: select users"
EnqueueStep(name) ==
    IF name = "EndActiveMeetings" THEN "EndActiveMeetings: enqueue"
    ELSE "CheckLiveMeetings: enqueue"

\* C25: a sweep run that completes has enqueued exactly one child job per
\* entity of its enumeration and none for any other: the enumeration is every
\* user (CheckLiveMeetings) or every meeting with null end time
\* (EndActiveMeetings), each step of the loop enqueues one child for the next
\* entity of it, and the run completes only when none is left.
C25_OneChildPerEntity ==
    [][\A w \in Workers :
          LET name == workers[w].job.name
              run == workers[w]
              run2 == workers'[w]
          IN  name \in JobNames =>
                /\ ( run.pc = SelectStep(name) /\ run2.pc = EnqueueStep(name) ) =>
                      /\ run2.list = Ascending(Enumeration(name))
                      /\ run2.enqueued = <<>>
                      /\ queue' = queue
                /\ ( run.pc = EnqueueStep(name) /\ run2 # run /\ run2.result # "Err" ) =>
                      IF run.list = <<>>
                      THEN /\ run2.pc = "done"
                           /\ run2.result = "Ok"
                           /\ run2.enqueued = run.enqueued
                           /\ queue' = queue
                      ELSE /\ run2.pc = EnqueueStep(name)
                           /\ queue' = queue (+) SetToBag({Job(ChildJob(name), Head(run.list))})
                           /\ run2.enqueued \o run2.list = run.enqueued \o run.list
                           /\ Len(run2.enqueued) = Len(run.enqueued) + 1
                /\ ( run.pc # "done" /\ run2.pc = "done" /\ run2.result = "Ok" ) =>
                      /\ run.list = <<>>
                      /\ \A j, k \in DOMAIN run2.enqueued :
                            run2.enqueued[j] = run2.enqueued[k] => j = k]_vars

\* an EndActiveMeetings run completed with a child for an open meeting and
\* none for a meeting whose end time is set
C25_Witness ==
    \E w \in Workers :
        /\ workers[w].job.name = "EndActiveMeetings"
        /\ At(w, "done")
        /\ workers[w].result = "Ok"
        /\ Len(workers[w].enqueued) = 1
        /\ BagIn(Job("EndMeeting", workers[w].enqueued[1]), queue)
        /\ \E i \in MeetingIds :
              /\ meetings[i].end_time # None
              /\ i # workers[w].enqueued[1]
              /\ ~BagIn(Job("EndMeeting", i), queue)

\* the steps of DBUser::access_token

\* C26: within one EndMeeting run the access-token lookup, with its refresh
\* and its store write, is over before terminate is attempted; terminate is
\* called with the token the lookup returned (the stored token of the row
\* read, or the refreshed one, by then written to the user's row); a lookup
\* that fails ends the run without a terminate call.
C26_TokenBeforeTerminate ==
    [][\A w \in Workers :
          LET run == workers[w]
              run2 == workers'[w]
          IN  /\ ( run.pc # "EndMeeting: adios" /\ run2.pc = "EndMeeting: adios" ) =>
                    /\ run.pc \in {"access_token: check", "access_token: update user"}
                    /\ run2.adios_calls = 0
                    /\ IF run.pc = "access_token: check"
                       THEN /\ run2.refresh_calls = 0
                            /\ run2.access_token = Some(Unwrap(run.owner).access_token)
                            /\ users' = users
                       ELSE /\ run2.refresh_calls = 1
                            /\ run2.access_token = Some(Unwrap(run.token_response).access_token)
                            /\ users'[Unwrap(run.owner).user_id].access_token
                                  = Unwrap(run.token_response).access_token
              /\ run2.adios_calls > run.adios_calls =>
                    /\ run.pc = "EndMeeting: adios"
                    /\ run.access_token # None
                    /\ run2.adios_token = run.access_token
                    /\ run2.adios_calls = 1
              /\ ( /\ run.pc \in {"access_token: check", "access_token: refresh",
                                   "access_token: update user"}
                   /\ run2.pc = "done" ) =>
                    /\ run2.result = "Err"
                    /\ run2.adios_calls = 0
                    /\ run2.adios_token = None]_vars

\* terminate was called with a refreshed token, which differs from the token
\* of the row the run read
C26_Witness ==
    \E w \in Workers :
        /\ At(w, "done")
        /\ workers[w].adios_calls = 1
        /\ workers[w].refresh_calls = 1
        /\ workers[w].adios_token = Some(Unwrap(workers[w].token_response).access_token)
        /\ workers[w].adios_token # Some(Unwrap(workers[w].owner).access_token)

\* the jobs that do the work for one user or one meeting
PerEntityJobs == {"EndMeeting", "CheckLiveUserMeetings"}

\* the run of w ends with a failure in this step
FailsNow(w) ==
    /\ workers[w].job.name \in PerEntityJobs
    /\ workers[w].pc # "done"
    /\ workers'[w].pc = "done"
    /\ workers'[w].result = "Err"

\* a child job for entity 2 is queued, and a run of it has completed
Queued(name) == BagIn(Job(name, 2), queue)
Completed(name) ==
    \E w \in Workers :
        /\ workers[w].job = Job(name, 2)
        /\ At(w, "done")
        /\ workers[w].result = "Ok"
\* a sweep has the entity 2 in the enumeration it is working through
Enumerated(name) ==
    \E w \in Workers :
        /\ workers[w].job.name \in JobNames
        /\ ChildJob(workers[w].job.name) = name
        /\ \E k \in DOMAIN workers[w].list : workers[w].list[k] = 2

\* C27: a failure of the work for one user or one meeting does not keep the
\* other entities of the sweep from being processed: the failing step takes no
\* job off the queue and changes no row, the worker of the failed run becomes
\* idle again, the sweep enqueues a child for the other entity of its
\* enumeration, and that child is run to completion.
C27_FailureIsLocal ==
    /\ [][\A w \in Workers :
            /\ FailsNow(w) =>
                  /\ queue' = queue
                  /\ meetings' = meetings
                  /\ users' = users
                  /\ \A v \in Workers \ {w} : workers'[v] = workers[v]
            /\ ( At(w, "done") /\ workers[w].result = "Err" /\ workers'[w] # workers[w] ) =>
                  /\ workers'[w] = IdleWorker
                  /\ queue' = queue]_vars
    /\ \A name \in PerEntityJobs :
          /\ Enumerated(name) ~> Queued(name)
          /\ Queued(name) ~> Completed(name)

\* the work for meeting 1 has failed at the provider call while the child job
\* for meeting 2 is queued
C27_Witness ==
    \E w \in Workers :
        /\ workers[w].job = Job("EndMeeting", 1)
        /\ At(w, "done")
        /\ workers[w].result = "Err"
        /\ workers[w].failed_at = "adios"
        /\ Queued("EndMeeting")

\* the steps of the per-entity jobs in the order of the code, and the name a
\* failed run reports for each
StepOrder ==
    <<"EndMeeting: select meeting", "EndMeeting: select owner", "EndMeeting: check",
      "access_token: check", "access_token: refresh", "access_token: update user",
      "EndMeeting: adios",
      "CheckLiveUserMeetings: select user", "CheckLiveUserMeetings: get_meetings",
      "CheckLiveUserMeetings: insert", "done">>
Rank(pc) == CHOOSE k \in DOMAIN StepOrder : StepOrder[k] = pc

\* C28: in an EndMeeting or CheckLiveUserMeetings run the first failing step
\* (store read, token refresh, provider call, store write) ends the run with a
\* failure result that names it, no later step of the run executes, and no
\* step is attempted twice: the run only moves forward, with one insert per
\* listed meeting, at most one refresh call and at most one terminate call.
C28_FirstFailureEndsRun ==
    [][\A w \in Workers :
          LET run == workers[w]
              run2 == workers'[w]
          IN  ( run.job.name \in PerEntityJobs /\ run2 # run ) =>
                /\ At(w, "done") => run2 = IdleWorker
                /\ ~At(w, "done") =>
                      /\ \/ Rank(run2.pc) > Rank(run.pc)
                         \/ /\ run.pc = "CheckLiveUserMeetings: insert"
                            /\ run2.pc = run.pc
                            /\ Len(run2.list) = Len(run.list) - 1
                            /\ Len(run2.inserts) = Len(run.inserts) + 1
                      /\ run.failed_at = ""
                      /\ run.result = ""
                      /\ run2.refresh_calls <= 1
                      /\ run2.adios_calls <= 1
                      /\ (run2.result = "Err") <=> (run2.failed_at # "")
                      /\ run2.result # "" <=> run2.pc = "done"
                      /\ run2.result = "Err" =>
                            /\ run2.failed_at =
                                   <<"select meeting", "select owner", "", "", "refresh",
                                     "update user", "adios", "select user", "get_meetings",
                                     "insert meeting", "">>[Rank(run.pc)]
                            /\ meetings' = meetings
                            /\ users' = users
                            /\ queue' = queue
                            /\ run.pc # "EndMeeting: adios" => run2.adios_calls = run.adios_calls
                            /\ run.pc # "access_token: refresh" =>
                                  run2.refresh_calls = run.refresh_calls]_vars

\* a run failed at the store write of the refreshed token, after one refresh
\* call and with no terminate call
C28_Witness ==
    \E w \in Workers :
        /\ workers[w].job.name = "EndMeeting"
        /\ At(w, "done")
        /\ workers[w].result = "Err"
        /\ workers[w].failed_at = "update user"
        /\ workers[w].refresh_calls = 1
        /\ workers[w].adios_calls = 0

\* C29 (as stated): a signed meeting.started event for a known host and an
\* instance id with no row inserts exactly one row, owned by the host's user,
\* with the payload's meeting id, instance id and start time and a null end
\* time, when the store works.
C29_StartedInsertsOpenRow ==
    [][\A p \in StartedPayloads :
          ( /\ UsersByZoomId(p.host_id) # {}
            /\ RowsOf(p.uuid) = {}
            /\ zoom_webhook(SignedRequest(Envelope("meeting.started", p)), 0) ) =>
              /\ response'.status = 200
              /\ Len(meetings') = Len(meetings) + 1
              /\ \A i \in MeetingIds : meetings'[i] = meetings[i]
              /\ LET row == meetings'[Len(meetings')]
                 IN  /\ row.user_id \in UsersByZoomId(p.host_id)
                     /\ row.zoom_id = p.id
                     /\ row.zoom_uuid = p.uuid
                     /\ row.start_time = p.start_time
                     /\ row.end_time = None]_vars

\* C30: a meeting row, once created, is never deleted and keeps its owning
\* user, its provider meeting id and its provider instance id; no operation
\* changes a field other than end_time, start_time and
\* max_meeting_length_minutes.
C30_RowIdentityIsFixed ==
    [][\A i \in MeetingIds :
          /\ i \in DOMAIN meetings'
          /\ meetings'[i].user_id = meetings[i].user_id
          /\ meetings'[i].zoom_id = meetings[i].zoom_id
          /\ meetings'[i].zoom_uuid = meetings[i].zoom_uuid
          /\ meetings'[i].meeting_id = meetings[i].meeting_id
          /\ meetings'[i].topic = meetings[i].topic]_vars

\* a row made by a meeting.started webhook has been closed and its length
\* edited, and discovery has sighted another instance of its meeting
C30_Witness ==
    \E i \in MeetingIds :
        /\ meetings[i].topic # None
        /\ meetings[i].end_time # None
        /\ meetings[i].max_meeting_length_minutes # None
        /\ \E w \in Workers : \E k \in DOMAIN workers[w].inserts :
              /\ workers[w].inserts[k][2] = 0
              /\ workers[w].inserts[k][1] # meetings[i].zoom_uuid
              /\ ZoomIdOf(workers[w].inserts[k][1]) = meetings[i].zoom_id

\* C31: every step of a job or a webhook writes at most one row of the store:
\* it adds one row, or changes one row, of one table, and removes none.
C31_OneRowPerStatement ==
    [][LET written(old, new) ==
               {i \in DOMAIN new : i \notin DOMAIN old \/ new[i] # old[i]}
       IN  /\ DOMAIN meetings \subseteq DOMAIN meetings'
           /\ DOMAIN users \subseteq DOMAIN users'
           /\ Cardinality(written(meetings, meetings'))
                  + Cardinality(written(users, users')) <= 1]_vars

\* a meeting.ended update, a discovery insert and a token update have each
\* written their row
C31_Witness ==
    /\ \E i \in MeetingIds : meetings[i].topic # None /\ meetings[i].end_time # None
    /\ \E i \in MeetingIds : meetings[i].topic = None
    /\ \E u \in UserIds : users[u].access_token # u
    /\ Len(meetings) >= 2

\* C32: jobs that refresh one user's token at the same time call the refresh
\* endpoint once each, and every write of the user's row stores the access
\* token and the expiry of one and the same refresh response.
C32_LastWriterWinsWhole ==
    [][/\ \A w \in Workers : workers'[w].refresh_calls <= 1
       /\ \A u \in UserIds :
             users'[u] # users[u] =>
                 \E w \in Workers :
                     /\ At(w, "access_token: update user")
                     /\ Unwrap(workers[w].owner).user_id = u
                     /\ workers[w].refresh_calls = 1
                     /\ LET token_response == Unwrap(workers[w].token_response)
                        IN  /\ users'[u].access_token = token_response.access_token
                            /\ users'[u].expires_at = now + token_response.expires_in]_vars

\* two runs have refreshed the token of one user and both have written the
\* row; the row holds the token of the run that refreshed first and wrote last
C32_Witness ==
    \E w1, w2 \in Workers :
        /\ w1 # w2
        /\ workers[w1].refresh_calls = 1 /\ workers[w2].refresh_calls = 1
        /\ At(w1, "EndMeeting: adios") /\ At(w2, "EndMeeting: adios")
        /\ workers[w1].owner = workers[w2].owner
        /\ Unwrap(workers[w1].access_token) < Unwrap(workers[w2].access_token)
        /\ users[Unwrap(workers[w1].owner).user_id].access_token = Unwrap(workers[w1].access_token)

\* C33 (as stated): whatever way an EndMeeting run and a meeting.ended
\* webhook for the same meeting interleave, the stored row of the meeting has
\* no end time at the moment the run calls terminate.
C33_NoTerminateOnceRowEnded ==
    [][\A w \in Workers :
          ( /\ At(w, "EndMeeting: adios")
            /\ workers'[w].adios_calls > workers[w].adios_calls ) =>
              meetings[workers[w].job.arg].end_time = None]_vars

\* C34: an EndMeeting job carries only the meeting's id; its run reads the
\* meeting row and the owner row as they are stored when it runs, and decides
\* with the override, the end time and the owner default of those rows.
C34_RunDecidesWithStoredRows ==
    [][/\ \A job \in BagToSet(queue') : DOMAIN job = {"name", "arg"}
       /\ \A w \in Workers :
             /\ ( At(w, "EndMeeting: select meeting")
                  /\ workers'[w].pc = "EndMeeting: select owner" ) =>
                    workers'[w].meeting = Some(meetings[workers[w].job.arg])
             /\ ( At(w, "EndMeeting: select owner")
                  /\ workers'[w].pc = "EndMeeting: check" ) =>
                    workers'[w].owner = Some(users[meetings[workers[w].job.arg].user_id])
             /\ ( At(w, "EndMeeting: check") /\ workers'[w] # workers[w] ) =>
                    ( workers'[w].pc \in TerminatePath <=> OverLimit(w, now) )]_vars

\* a run has decided not to terminate a meeting that is over the default
\* limit and over the limit it was made with, because the host has since set
\* its override to 60 minutes and the default to 1 minute
C34_Witness ==
    \E w \in Workers :
        /\ At(w, "done")
        /\ workers[w].job.name = "EndMeeting"
        /\ workers[w].result = "Ok"
        /\ workers[w].adios_calls = 0
        /\ workers[w].owner # None
        /\ Unwrap(workers[w].meeting).end_time = None
        /\ Unwrap(workers[w].meeting).max_meeting_length_minutes = Some(60)
        /\ Unwrap(workers[w].owner).default_meeting_length_minutes = Some(1)
        /\ duration(Unwrap(workers[w].meeting), now) > Minutes(DEFAULT_MAX_MEETING_LENGTH_MINUTES)

\* C35: no step changes the start_time of a row that exists; a
\* meeting.started webhook about a meeting whose row discovery made is
\* answered 400 at its insert and leaves the table as it was.
C35_StartTimeIsFixed ==
    [][/\ \A i \in MeetingIds : meetings'[i].start_time = meetings[i].start_time
       /\ ( /\ response'.status = 400
            /\ response'.steps = <<"verify", "decode", "try_from", "process", "select user",
                                   "insert meeting">> ) =>
                meetings' = meetings]_vars

\* the row discovery made keeps the discovery instant as its start time after
\* time has passed and a meeting.started webhook about its meeting has just
\* been turned away at the insert
C35_Witness ==
    /\ response.status = 400
    /\ response.reason = "DB Error"
    /\ Len(response.steps) = 6 /\ response.steps[6] = "insert meeting"
    /\ \E i \in MeetingIds :
          /\ meetings[i].topic = None
          /\ meetings[i].start_time = 0
          /\ now > 0

\* C36: no step of a CheckLiveUserMeetings run calls the refresh endpoint or
\* changes the users table; the run lists the provider's meetings with the
\* access token of the user row it read, whether or not that token is past
\* its expiry.
C36_DiscoveryUsesStoredToken ==
    [][\A w \in Workers :
          ( workers[w].job.name = "CheckLiveUserMeetings" /\ workers'[w] # workers[w] ) =>
              /\ users' = users
              /\ issued' = issued
              /\ workers'[w].refresh_calls = 0
              /\ workers'[w].token_response = None
              /\ ( At(w, "CheckLiveUserMeetings: select user")
                   /\ workers'[w].owner # None ) =>
                     workers'[w].owner = Some(users[workers[w].job.arg])
              /\ ( At(w, "CheckLiveUserMeetings: get_meetings")
                   /\ workers'[w].pc = "CheckLiveUserMeetings: insert" ) =>
                     workers'[w].access_token = Some(users[workers[w].job.arg].access_token)]_vars

\* a run has listed the meetings of a user with a token past its expiry
C36_Witness ==
    \E w \in Workers :
        /\ workers[w].job.name = "CheckLiveUserMeetings"
        /\ At(w, "CheckLiveUserMeetings: insert")
        /\ Unwrap(workers[w].owner).expires_at < now
        /\ workers[w].access_token = Some(Unwrap(workers[w].owner).access_token)
        /\ users[workers[w].job.arg] = Unwrap(workers[w].owner)

\* C37 (as stated): a webhook request without the x-zm-request-timestamp
\* header or without the x-zm-signature header is answered with 400 and
\* changes neither the meetings nor the users.
C37_MissingHeaderRejected ==
    [][response'.signed = "header missing" =>
          /\ response'.status = 400
          /\ ~response'.panicked
          /\ meetings' = meetings
          /\ users' = users]_vars

\* C38: an edit of a meeting's override by a logged-in user changes nothing
\* but the override of the meeting it names, and that only when the user owns
\* the meeting; naming a meeting of another user leaves every row as it was.
C38_EditTouchesOwnOverrideOnly ==
    [][\A u \in UserIds : \A id \in MeetingIds : \A len \in LengthInputs :
          edit_meeting(u, Some(id), len, 0) =>
              /\ DOMAIN meetings' = DOMAIN meetings
              /\ users' = users
              /\ \A i \in MeetingIds :
                    /\ [meetings'[i] EXCEPT !.max_meeting_length_minutes =
                                               meetings[i].max_meeting_length_minutes]
                          = meetings[i]
                    /\ (i # id \/ meetings[i].user_id # u) => meetings'[i] = meetings[i]
              /\ meetings[id].user_id = u =>
                    meetings'[id].max_meeting_length_minutes = len]_vars

\* an edit has been answered while rows of two owners exist; the override of
\* one owner's meeting has been edited and removed, that of the other's is
\* the edited one
C38_Witness ==
    /\ response.status = 303
    /\ response.steps = <<"update meeting">>
    /\ \E i, j \in MeetingIds :
          /\ meetings[i].user_id # meetings[j].user_id
          /\ meetings[i].max_meeting_length_minutes = None
          /\ meetings[j].max_meeting_length_minutes = Some(60)

====
